---- MODULE Spec2Model ----
(***************************************************************************)
(* The workflow step engine of logos-sandbox (workflow_runner.py):         *)
(* AgentWorkflowRunner.execute_workflow walking the agent's ordered        *)
(* workflow steps, with get_step_config, execute_step and the two step     *)
(* handlers _execute_tool_step and _execute_step_with_llm, the shared      *)
(* WorkflowContext and the AgentExecution record.                          *)
(***************************************************************************)
EXTENDS Integers, Sequences, FiniteSets, TLC

(***************************************************************************)
(* Bounds.  The ceiling MAX_WORKFLOW_STEPS is read from the environment    *)
(* when the module is loaded (default DefaultMaxWorkflowSteps); the engine *)
(* is checked with every configured ceiling 1..MaxCeiling and every        *)
(* workflow of at most MaxLen steps.                                       *)
(***************************************************************************)
MaxCeiling == 2

MaxLen == 3

DefaultMaxWorkflowSteps == 20

(***************************************************************************)
(* JSON-compatible values held by the context, tagged by their Python type.*)
(* "cyclic" is a self-referential list, a value a caller can put into the  *)
(* initial context and that json.dumps refuses (ValueError) even with      *)
(* default=str.                                                            *)
(***************************************************************************)
None == [t |-> "null", v |-> ""]

Str(s) == [t |-> "str", v |-> s]

Bool(b) == [t |-> "bool", v |-> b]

List(items) == [t |-> "list", v |-> items]

Dict(f) == [t |-> "dict", v |-> f]

Cyclic == [t |-> "cyclic", v |-> ""]

EmptyMap == <<>>

(* Python truthiness of a value: `not value` is ~Truthy(value). *)
Truthy(val) ==
    CASE val.t = "null" -> FALSE
      [] val.t = "bool" -> val.v
      [] val.t = "str" -> val.v # ""
      [] val.t = "list" -> val.v # <<>>
      [] val.t = "dict" -> DOMAIN val.v # {}
      [] OTHER -> TRUE

(* str.strip() == "" on the strings of the model. *)
IsBlank(s) == s \in {"", " "}

(***************************************************************************)
(* WorkflowContext: variables is a mapping name -> value, step_outputs the *)
(* side-index ordinal -> outputs of that step.                             *)
(***************************************************************************)
CtxGet(variables, key) == IF key \in DOMAIN variables THEN variables[key] ELSE None

(* dict.update: the keys of updates overwrite those of variables. *)
CtxUpdate_keeps_earlier(variables, updates) == variables @@ updates

CtxUpdate(variables, updates) == updates @@ variables

CtxSet(variables, key, value) == (key :> value) @@ variables

(***************************************************************************)
(* Step kinds (models.NodeType) and the per-kind defaults table.  A string *)
(* template is the sequence of its pieces, the placeholders being pieces   *)
(* of their own, so that str.replace is the replacement of a piece.        *)
(***************************************************************************)
NodeType == {"trigger", "input", "process", "output", "tool", "decision", "transform"}

Join(pieces) ==
    LET RECURSIVE J(_)
        J(n) == IF n = 0 THEN "" ELSE J(n - 1) \o pieces[n]
    IN J(Len(pieces))

Replace(pieces, placeholder, by) ==
    [n \in 1..Len(pieces) |-> IF pieces[n] = placeholder THEN by ELSE pieces[n]]

Contains(pieces, placeholder) == \E n \in 1..Len(pieces) : pieces[n] = placeholder

T_result == <<"step_", "{index}", "_result">>

T_input == <<"step_", "{index}", "_input">>

T_prev == <<"step_", "{prev_index}", "_result">>

(* Values of the table: str/list/map templates and None. *)
STEP_DEFAULTS(type) ==
    CASE type = "input" ->
            [variable_name |-> [t |-> "str", v |-> T_input],
             default_value |-> [t |-> "none", v |-> <<>>],
             output_variable_name |-> [t |-> "str", v |-> T_result]]
      [] type = "trigger" ->
            [output_variable_name |-> [t |-> "str", v |-> T_result]]
      [] type = "output" ->
            [output_variables |-> [t |-> "list", v |-> <<T_result>>],
             format |-> [t |-> "none", v |-> <<>>]]
      [] type = "process" ->
            [input_variables |-> [t |-> "list", v |-> <<T_prev>>],
             output_variable_name |-> [t |-> "str", v |-> T_result]]
      [] type = "tool" ->
            [tool_name |-> [t |-> "str", v |-> <<"exa_search">>],
             input_mapping |-> [t |-> "map", v |-> ("query" :> T_prev)],
             output_mapping |-> [t |-> "map", v |-> ("search_results" :> <<"$output">>)]]
      [] type = "decision" ->
            [condition |-> [t |-> "str", v |-> <<"not_empty", ":", "step_result">>],
             input_variables |-> [t |-> "list", v |-> <<T_prev>>]]
      [] type = "transform" ->
            [transformation |-> [t |-> "str", v |-> <<"json_stringify">>],
             input_variables |-> [t |-> "list", v |-> <<T_prev>>],
             output_variable |-> [t |-> "str", v |-> T_result]]

(* The list comprehension's filter: at step 0 the items holding the        *)
(* previous-ordinal placeholder are left out.                              *)
KeptItems(list, step_index) ==
    LET RECURSIVE F(_)
        F(n) == IF n = 0 THEN <<>>
                ELSE IF Contains(list[n], "{prev_index}") /\ step_index = 0 THEN F(n - 1)
                ELSE Append(F(n - 1), list[n])
    IN F(Len(list))

(* The substitution get_step_config applies to one default value; a string *)
(* stays a sequence of pieces, Join gives its text.                        *)
SubstituteDefault(value, step_index) ==
    CASE value.t = "str" ->
            [t |-> "str",
             v |-> Replace(Replace(value.v, "{index}", ToString(step_index)),
                           "{prev_index}",
                           IF step_index > 0 THEN ToString(step_index - 1) ELSE "")]
      [] value.t = "list" ->
            LET kept == KeptItems(value.v, step_index)
            IN [t |-> "list",
                v |-> [n \in 1..Len(kept) |->
                         IF step_index > 0
                         THEN Replace(Replace(kept[n], "{index}", ToString(step_index)),
                                      "{prev_index}", ToString(step_index - 1))
                         ELSE kept[n]]]
      [] OTHER -> value

(* get_step_config: the step's type and the substituted defaults of that   *)
(* type; nothing else is consulted.                                        *)
get_step_config(steps, step_index) ==
    IF step_index >= Len(steps) THEN <<>>
    ELSE LET type == steps[step_index + 1]
             defaults == STEP_DEFAULTS(type)
         IN [k \in DOMAIN defaults |-> SubstituteDefault(defaults[k], step_index)]
            @@ ("type" :> [t |-> "str", v |-> <<type>>])

(* config.get(key, default). *)
ConfigGet(config, key, default) ==
    IF key \in DOMAIN config THEN config[key] ELSE default

StepKey(step_index, suffix) == "step_" \o ToString(step_index) \o suffix

(* json.dumps accepts the value (no TypeError/ValueError). *)
JsonSerializable(val) == val.t # "cyclic"

(* The text json.dumps(value, default=str) produces. *)
RECURSIVE JsonDumps(_)
JsonDumps(val) ==
    CASE val.t = "null" -> "null"
      [] val.t = "bool" -> IF val.v THEN "true" ELSE "false"
      [] val.t = "str" -> "\"" \o val.v \o "\""
      [] val.t = "list" ->
            LET RECURSIVE Items(_)
                Items(n) == IF n = 0 THEN ""
                            ELSE IF n = 1 THEN JsonDumps(val.v[1])
                            ELSE Items(n - 1) \o ", " \o JsonDumps(val.v[n])
            IN "[" \o Items(Len(val.v)) \o "]"
      [] val.t = "dict" ->
            LET RECURSIVE Entries(_)
                Entries(ks) ==
                    IF ks = {} THEN ""
                    ELSE LET k == CHOOSE x \in ks : TRUE
                             rest == Entries(ks \ {k})
                         IN "\"" \o k \o "\": " \o JsonDumps(val.v[k])
                            \o (IF rest = "" THEN "" ELSE ", " \o rest)
            IN "{" \o Entries(DOMAIN val.v) \o "}"
      [] OTHER -> "<cyclic>"

(***************************************************************************)
(* A handler's result: raised tells that an exception left the handler,    *)
(* outputs is the mapping it returns, variables the context after it.      *)
(* model_called and failure observe the handler: whether it called the     *)
(* model, and which call failed inside it ("none", "tool", "llm", or       *)
(* "model" for a model call that failed inside the session).               *)
(***************************************************************************)
Raised(variables) == [raised |-> TRUE, outputs |-> EmptyMap, variables |-> variables,
                      model_called |-> FALSE, failure |-> "exception"]

Returned(outputs, variables, called, failure) ==
    [raised |-> FALSE, outputs |-> outputs, variables |-> variables,
     model_called |-> called, failure |-> failure]

(***************************************************************************)
(* _execute_tool_step.  call is what the tool channel does with the call:  *)
(* [ok |-> TRUE, content |-> value] or [ok |-> FALSE] (no session, or      *)
(* call_tool raises).                                                      *)
(***************************************************************************)
ToolOutputMapping_no_fallback(output_mapping, result_content) ==
    [context_var \in DOMAIN output_mapping |->
        LET source_path == Join(output_mapping[context_var])
        IN IF source_path = "$output" THEN result_content
           ELSE IF result_content.t = "dict" /\ source_path \in DOMAIN result_content.v
                THEN result_content.v[source_path]
           ELSE None]

ToolOutputMapping(output_mapping, result_content) ==
    [context_var \in DOMAIN output_mapping |->
        LET source_path == Join(output_mapping[context_var])
        IN IF source_path = "$output" THEN result_content
           ELSE IF result_content.t = "dict" /\ source_path \in DOMAIN result_content.v
                THEN result_content.v[source_path]
           ELSE result_content]

execute_tool_step(step_index, config, variables, call) ==
    LET input_mapping == ConfigGet(config, "input_mapping", [t |-> "map", v |-> EmptyMap]).v
        resolved == {a \in DOMAIN input_mapping : Join(input_mapping[a]) \in DOMAIN variables}
        resolved_args == [a \in resolved |-> variables[Join(input_mapping[a])]]
        output_mapping ==
            ConfigGet(config, "output_mapping",
                      [t |-> "map", v |-> ("search_results" :> <<"$output">>)]).v
    IN  \* json.dumps(resolved_args) in the log line, outside the try
        IF \E a \in resolved : ~JsonSerializable(resolved_args[a])
        THEN Raised(variables)
        ELSE IF call.ok
        THEN Returned(ToolOutputMapping(output_mapping, call.content), variables, FALSE, "none")
        ELSE Returned(StepKey(step_index, "_error") :> Str("Error executing tool"),
                      variables, FALSE, "tool")

(***************************************************************************)
(* _execute_step_with_llm.  llm is the outcome of                          *)
(* MCPClient.execute_llm_interaction for this step, used only if the       *)
(* handler gets as far as calling it: [kind |-> "raise"], or the           *)
(* aggregated text, which either holds a JSON object (kind "json", the     *)
(* parsed object in outputs) or does not (kind "text").                    *)
(***************************************************************************)
(* str.split(sep) of a string kept as pieces. *)
Split(pieces, sep) ==
    LET RECURSIVE S(_)
        S(n) == IF n = 0 THEN <<"">>
                ELSE LET p == S(n - 1)
                     IN IF pieces[n] = sep THEN Append(p, "")
                        ELSE [p EXCEPT ![Len(p)] = @ \o pieces[n]]
    IN S(Len(pieces))

Names(list) == {Join(list[n]) : n \in 1..Len(list)}

(* The context variables the handler serializes into filtered_context. *)
FilteredKeys(type, config, variables) ==
    LET input_variables == ConfigGet(config, "input_variables", [t |-> "list", v |-> <<>>]).v
    IN IF input_variables # <<>> THEN Names(input_variables) \cap DOMAIN variables
       ELSE IF type = "input"
            THEN {Join(ConfigGet(config, "variable_name", [t |-> "str", v |-> <<>>]).v)}
                 \cap DOMAIN variables
       ELSE IF type = "output"
            THEN Names(ConfigGet(config, "output_variables", [t |-> "list", v |-> <<>>]).v)
                 \cap DOMAIN variables
       ELSE IF type = "transform" THEN {}
       ELSE {k \in DOMAIN variables : variables[k].t # "null"}

(* The direct evaluation of a decision step: <<TRUE, result>> when the     *)
(* condition is "<type>:<name>" with type not_empty and the named variable *)
(* is not None, <<FALSE, FALSE>> when the handler falls through to the     *)
(* model.                                                                  *)
DirectDecision_no_strip(config, variables) ==
    LET condition == ConfigGet(config, "condition",
                               [t |-> "str", v |-> <<"not_empty", ":", "step_result">>]).v
        condition_parts == Split(condition, ":")
    IN IF Len(condition_parts) # 2 THEN <<FALSE, FALSE>>
       ELSE LET condition_type == condition_parts[1]
                variable_value == CtxGet(variables, condition_parts[2])
            IN IF condition_type = "not_empty" /\ variable_value # None
               THEN LET is_empty ==
                            \/ variable_value = None
                            \/ variable_value = Str("")
                            \/ variable_value = List(<<>>)
                            \/ variable_value = Dict(EmptyMap)
                    IN <<TRUE, ~is_empty>>
               ELSE <<FALSE, FALSE>>

DirectDecision(config, variables) ==
    LET condition == ConfigGet(config, "condition",
                               [t |-> "str", v |-> <<"not_empty", ":", "step_result">>]).v
        condition_parts == Split(condition, ":")
    IN IF Len(condition_parts) # 2 THEN <<FALSE, FALSE>>
       ELSE LET condition_type == condition_parts[1]
                variable_value == CtxGet(variables, condition_parts[2])
            IN IF condition_type = "not_empty" /\ variable_value # None
               THEN LET is_empty ==
                            \/ variable_value = None
                            \/ variable_value = Str("")
                            \/ variable_value = List(<<>>)
                            \/ variable_value = Dict(EmptyMap)
                            \/ (variable_value.t = "str" /\ IsBlank(variable_value.v))
                    IN <<TRUE, ~is_empty>>
               ELSE <<FALSE, FALSE>>

execute_step_with_llm(type, step_index, config, variables, llm) ==
    LET var_name == Join(ConfigGet(config, "variable_name",
                                   [t |-> "str", v |-> <<StepKey(step_index, "_input")>>]).v)
        default_value == ConfigGet(config, "default_value", [t |-> "none", v |-> <<>>])
        direct == DirectDecision(config, variables)
        filtered == FilteredKeys(type, config, variables)
        input_vars == ConfigGet(config, "input_variables", [t |-> "list", v |-> <<>>]).v
        transformation == Join(ConfigGet(config, "transformation",
                                         [t |-> "str", v |-> <<"json_stringify">>]).v)
        output_var == Join(ConfigGet(config, "output_variable",
                                     [t |-> "str", v |-> <<StepKey(step_index, "_result")>>]).v)
        fallback_var == Join(ConfigGet(config, "output_variable_name",
                                     [t |-> "str", v |-> <<StepKey(step_index, "_result")>>]).v)
        error_key == StepKey(step_index, "_error")
        error_msg == Str("Error during LLM interaction for step execution")
    IN  IF type = "input" /\ CtxGet(variables, var_name) = None /\ default_value.t # "none"
        THEN Returned(var_name :> default_value.v, variables, FALSE, "none")
        ELSE IF type = "decision" /\ direct[1]
        THEN Returned((StepKey(step_index, "_condition_result") :> Bool(direct[2]))
                      @@ (StepKey(step_index, "_explanation") :>
                            Str(IF direct[2] THEN "TRUE because not empty"
                                ELSE "FALSE because empty")),
                      variables, FALSE, "none")
        \* _safe_serialize of a selected variable: json.dumps raises ValueError
        ELSE IF \E k \in filtered : ~JsonSerializable(variables[k])
        THEN Raised(variables)
        ELSE IF type = "transform" /\ transformation = "json_stringify" /\ input_vars # <<>>
        THEN LET first == Join(input_vars[1])
                 value == IF first \in filtered THEN variables[first] ELSE None
             IN Returned(output_var :> Str(JsonDumps(value)), variables, FALSE, "none")
        \* the system prompt: json.dumps(self.context.get_all(), default=str)
        ELSE IF \E k \in DOMAIN variables : ~JsonSerializable(variables[k])
        THEN Raised(variables)
        ELSE IF llm.kind = "raise"
        THEN Returned(error_key :> error_msg, CtxSet(variables, error_key, error_msg), TRUE,
                      "llm")
        ELSE IF llm.kind = "json"
        THEN Returned(llm.outputs, variables, TRUE, "none")
        \* the session caught the failure of its model call and returned the
        \* error message as its text: no JSON object in it
        ELSE IF llm.kind = "api_error"
        THEN Returned(fallback_var :> Str(llm.text), variables, TRUE, "model")
        ELSE Returned(fallback_var :> Str(llm.text), variables, TRUE, "none")

(* WorkflowContext.track_step_output: the outputs are filed under the      *)
(* step's ordinal and merged into the variables.                           *)
track_step_output_next(variables, step_outputs, step_index, outputs) ==
    [variables |-> CtxUpdate(variables, outputs),
     step_outputs |-> ((step_index + 1) :> outputs) @@ step_outputs]

track_step_output(variables, step_outputs, step_index, outputs) ==
    [variables |-> CtxUpdate(variables, outputs),
     step_outputs |-> (step_index :> outputs) @@ step_outputs]

(***************************************************************************)
(* execute_step: the configuration lookup, then dispatch_step: the         *)
(* dispatch on the step's type, the decision check, the tracking of the    *)
(* outputs in the context, and the step-level except.  Result: the outputs *)
(* and should_continue handed to execute_workflow, the context and its     *)
(* side-index after the step.                                              *)
(***************************************************************************)
(* step_outputs.get(f"step_{step_index}_condition_result", True) *)
DecisionResult_defaults_false(outputs, decision_key) ==
    IF decision_key \in DOMAIN outputs THEN outputs[decision_key] ELSE Bool(FALSE)

DecisionResult(outputs, decision_key) ==
    IF decision_key \in DOMAIN outputs THEN outputs[decision_key] ELSE Bool(TRUE)

dispatch_step(type, step_index, config, variables, step_outputs, call, llm) ==
    LET r == IF type = "tool"
             THEN execute_tool_step(step_index, config, variables, call)
             ELSE execute_step_with_llm(type, step_index, config, variables, llm)
        decision_key == StepKey(step_index, "_condition_result")
        decision_result == DecisionResult(r.outputs, decision_key)
        error_msg == Str("Error executing step")
    IN IF r.raised
       THEN [outputs |-> (StepKey(step_index, "_error") :> error_msg)
                         @@ (StepKey(step_index, "_exception_type") :> Str("ValueError")),
             should_continue |-> FALSE,
             variables |-> CtxSet(r.variables, StepKey(step_index, "_error"), error_msg),
             step_outputs |-> step_outputs,
             model_called |-> r.model_called,
             failure |-> r.failure]
       ELSE [outputs |-> r.outputs,
             should_continue |-> ~(type = "decision" /\ ~Truthy(decision_result)),
             variables |-> track_step_output(r.variables, step_outputs, step_index,
                                             r.outputs).variables,
             step_outputs |-> track_step_output(r.variables, step_outputs, step_index,
                                                r.outputs).step_outputs,
             model_called |-> r.model_called,
             failure |-> r.failure]

execute_step(steps, step_index, variables, step_outputs, call, llm) ==
    dispatch_step(steps[step_index + 1], step_index, get_step_config(steps, step_index),
                  variables, step_outputs, call, llm)

(* The context variables a step's configuration names: its target         *)
(* variable, its input and output variables and its condition's variable.  *)
ConfigNames(config) ==
    (IF "variable_name" \in DOMAIN config THEN {Join(config.variable_name.v)} ELSE {})
    \cup (IF "input_variables" \in DOMAIN config THEN Names(config.input_variables.v) ELSE {})
    \cup (IF "output_variables" \in DOMAIN config THEN Names(config.output_variables.v)
          ELSE {})
    \cup (IF "condition" \in DOMAIN config /\ Len(Split(config.condition.v, ":")) = 2
          THEN {Split(config.condition.v, ":")[2]} ELSE {})

(* What execute_step did at one ordinal, as kept in the history variable   *)
(* trace: the step's type, the tool channel's answer, the values the       *)
(* context held on entry for the variables the configuration names, and    *)
(* the handler's observations.                                             *)
StepRecord(type, config, call, before, r) ==
    [type |-> type, call |-> call,
     entry |-> [k \in ConfigNames(config) \cap DOMAIN before |-> before[k]],
     failure |-> r.failure, model_called |-> r.model_called,
     should_continue |-> r.should_continue]

(***************************************************************************)
(* The inputs of a run.                                                    *)
(***************************************************************************)
(* The workflows: every sequence of step types of length 1..MaxLen (the    *)
(* constructor rejects an agent without workflow steps).                   *)
Workflows == UNION {[1..n -> NodeType] : n \in 1..MaxLen}

(* The values a caller binds a condition's variable to. *)
BoundValues ==
    {Str(""), Str(" "), Str("v"), List(<<>>), List(<<Str("a")>>), Dict(EmptyMap),
     Dict("a" :> Str("1")), Bool(FALSE), None}

(* initial_context of execute_workflow. *)
InitialContexts ==
    {EmptyMap}
    \cup {("step_result" :> val) : val \in {Str(""), Str("v")}}
    \cup {("x" :> Cyclic), ("step_0_input" :> Str("given")) @@ ("step_1_input" :> Str("given"))}

(* What the tool channel does with a call. *)
NoCall == [ok |-> FALSE, content |-> None]

ToolCalls ==
    {NoCall,
     [ok |-> TRUE, content |-> Dict("a" :> Str("1"))],
     [ok |-> TRUE, content |-> List(<<Str("text")>>)]}

(* What the LLM session gives for the step at step_index. *)
NoReply == [kind |-> "raise", text |-> "", outputs |-> EmptyMap]

JsonReply(outputs) == [kind |-> "json", text |-> "", outputs |-> outputs]

(* The session's model call raised: execute_llm_interaction appends the    *)
(* error message to its texts, leaves the loop and returns that text.      *)
ApiErrorReply ==
    [kind |-> "api_error", text |-> "Error calling Anthropic API", outputs |-> EmptyMap]

LLMReplies(type, step_index) ==
    {NoReply, [kind |-> "text", text |-> "v", outputs |-> EmptyMap],
     JsonReply(StepKey(step_index, "_result") :> Str("v"))}
    \cup (IF type = "decision"
          THEN {JsonReply(StepKey(step_index, "_condition_result") :> Bool(FALSE))}
          ELSE IF type = "input"
          THEN {JsonReply(StepKey(step_index, "_input") :> Str("new"))}
          ELSE IF type = "output"
          THEN {JsonReply("r" :> Str("v"))}
          ELSE {})

(***************************************************************************)
(* State.                                                                  *)
(*   MAX_WORKFLOW_STEPS          the configured ceiling                    *)
(*   workflow_steps, db_client   the runner as constructed                 *)
(*   agent_graph                 the node configurations the agent's graph *)
(*                               declares, one per step; the runner keeps  *)
(*                               the agent but never reads its graph       *)
(*   pc                          where execute_workflow stands             *)
(*   variables, step_outputs     self.context                              *)
(*   executed_steps, current_step, step_index, should_continue,            *)
(*   final_outputs, db_record_inserted   the bookkeeping of the run        *)
(*   execution_record            the AgentExecution of the run             *)
(*   stored_state                the state the record store holds          *)
(*   returned                    the dictionary execute_workflow returns   *)
(*   trace                       per executed ordinal, what its handler    *)
(*                               did (a history variable)                  *)
(***************************************************************************)
VARIABLES MAX_WORKFLOW_STEPS, workflow_steps, agent_graph, db_client, pc, variables, step_outputs, executed_steps,
          current_step, step_index, should_continue, final_outputs,
          db_record_inserted, execution_record, stored_state, returned, trace

(* The log sink: the number of log writes the store has refused so far. *)
VARIABLES log_failures

logVars == <<log_failures>>

(* MCPClient.execute_llm_interaction: the turn ceiling, the cached tool    *)
(* catalog, the position in the session, the locals of the function, the   *)
(* calls made to the model and to the tool channel, and what it returned.  *)
VARIABLES MAX_LLM_INTERACTION_TURNS, available_mcp_tools_cache, session_pc, turn, messages,
          aggregated_text_responses, all_tool_outputs, requested_mcp_tool_calls,
          tool_results_for_llm_message, model_calls, tool_calls, session_returned

sessionVars == <<MAX_LLM_INTERACTION_TURNS, available_mcp_tools_cache, session_pc, turn, messages,
                 aggregated_text_responses, all_tool_outputs, requested_mcp_tool_calls,
                 tool_results_for_llm_message, model_calls, tool_calls, session_returned>>

(* One call of MCPClient._summarize_large_content: its arguments and its   *)
(* outcome.                                                                *)
VARIABLES overflow_call, overflow_result

(* The asyncio.gather of _summarize_large_content: where the call is, the  *)
(* task of every chunk, the list gather returns, the chunk indexes in the  *)
(* order their calls returned and the most calls in flight at any time.    *)
VARIABLES gather_pc, chunk_tasks, chunk_summaries, completed_chunks, in_flight_max

gatherVars == <<gather_pc, chunk_tasks, chunk_summaries, completed_chunks, in_flight_max>>

(* What the call before this one returned, when its text is bounded again. *)
VARIABLES overflow_previous

overflowVars == <<overflow_call, overflow_result, gatherVars, overflow_previous>>

(* _truncate_content_fallback step by step: where the call is, its         *)
(* arguments, target_tokens, the text cut so far and the text returned.    *)
VARIABLES shrink_pc, shrink_call, shrink_target, shrink_truncated, shrink_result

shrinkVars == <<shrink_pc, shrink_call, shrink_target, shrink_truncated, shrink_result>>

(* The calls of execute_workflow on one runner: which call this is, and    *)
(* the context variables the steps of the call before it wrote.            *)
VARIABLES run_number, earlier_written

runVars == <<run_number, earlier_written>>

clientVars == <<sessionVars, overflowVars, shrinkVars, runVars>>

engineVars == <<MAX_WORKFLOW_STEPS, workflow_steps, agent_graph, db_client, pc, variables, step_outputs,
                executed_steps, current_step, step_index, should_continue, final_outputs,
                db_record_inserted, execution_record, stored_state, returned, trace>>

vars == <<engineVars, logVars, clientVars>>

(* No session and no call of the overflow manager is under way. *)
Unbound == [unbound |-> TRUE]

(* A local that is assigned in the loop body only. *)
NotAssigned == [bound |-> FALSE, calls |-> <<>>]

Assigned(calls) == [bound |-> TRUE, calls |-> calls]

SessionUnused ==
    /\ MAX_LLM_INTERACTION_TURNS = 0
    /\ available_mcp_tools_cache = {}
    /\ session_pc = "unused"
    /\ turn = 0
    /\ messages = <<>>
    /\ aggregated_text_responses = <<>>
    /\ all_tool_outputs = <<>>
    /\ requested_mcp_tool_calls = NotAssigned
    /\ tool_results_for_llm_message = <<>>
    /\ model_calls = 0
    /\ tool_calls = <<>>
    /\ session_returned = Unbound

GatherUnused ==
    /\ gather_pc = "unused"
    /\ chunk_tasks = <<>>
    /\ chunk_summaries = <<>>
    /\ completed_chunks = <<>>
    /\ in_flight_max = 0

ShrinkUnused ==
    /\ shrink_pc = "unused"
    /\ shrink_call = Unbound
    /\ shrink_target = 0
    /\ shrink_truncated = <<>>
    /\ shrink_result = Unbound

OverflowUnused ==
    /\ overflow_call = Unbound
    /\ overflow_result = Unbound
    /\ overflow_previous = Unbound
    /\ GatherUnused
    /\ ShrinkUnused

(* The runner has been called once at most. *)
FirstRun == run_number = 1 /\ earlier_written = {}

ClientUnused == SessionUnused /\ OverflowUnused /\ FirstRun

NoRecord == [state |-> "absent", error_message |-> "", initial_context |-> EmptyMap,
             final_outputs |-> EmptyMap, finalized |-> FALSE]

NotReturned == [workflow_final_status |-> "none", final_outputs |-> EmptyMap,
                error |-> ""]

(* The node configurations of the test agents (create_basic_query_workflow *)
(* and its siblings), by step type.                                        *)
NodeConfig(type) ==
    CASE type = "input" -> [variable_name |-> "q", default_value |-> Str("hi")]
      [] type = "process" -> [input_variables |-> <<"q">>, output_variable_name |-> "r"]
      [] type = "output" -> [output_variables |-> <<"r">>]
      [] type = "tool" -> [tool_name |-> "exa_search",
                           output_mapping |-> ("result" :> "$output")]
      [] type = "decision" -> [condition |-> "not_empty:x"]
      [] OTHER -> EmptyMap

Constructed(steps) ==
    /\ workflow_steps = steps
    /\ agent_graph = [n \in 1..Len(steps) |-> NodeConfig(steps[n])]
    /\ db_client \in BOOLEAN
    /\ pc = "idle"
    /\ variables = EmptyMap
    /\ step_outputs = EmptyMap
    /\ executed_steps = {}
    /\ current_step = 0
    /\ step_index = 0
    /\ should_continue = TRUE
    /\ final_outputs = EmptyMap
    /\ db_record_inserted = FALSE
    /\ execution_record = NoRecord
    /\ stored_state = "absent"
    /\ returned = NotReturned
    /\ trace = EmptyMap
    /\ log_failures = 0
    /\ ClientUnused

Init ==
    /\ MAX_WORKFLOW_STEPS \in 1..MaxCeiling
    /\ \E steps \in Workflows : Constructed(steps)

(***************************************************************************)
(* execute_workflow up to the main loop: the context takes the initial     *)
(* context and the run's metadata, the record is created running and       *)
(* inserted into the store when there is one.  insert_ok = FALSE is the    *)
(* store's insert raising: the except clause is next.                      *)
(***************************************************************************)
Metadata ==
    ("execution_id" :> Str("exec")) @@ ("agent_id" :> Str("agent"))
    @@ ("agent_name" :> Str("name"))

MoreMetadata == ("user_id" :> Str("user")) @@ ("workflow_objective" :> Str("objective"))

StartWorkflow(initial_context, insert_ok) ==
    /\ pc = "idle"
    /\ LET seeded == CtxUpdate(variables, initial_context)
       IN /\ execution_record' = [state |-> "running", error_message |-> "",
                                  initial_context |-> seeded,
                                  final_outputs |-> EmptyMap, finalized |-> FALSE]
          /\ final_outputs' = EmptyMap
          /\ IF db_client /\ ~insert_ok
             THEN /\ variables' = CtxUpdate(seeded, Metadata)
                  /\ db_record_inserted' = FALSE
                  /\ stored_state' = stored_state
                  /\ pc' = "except"
                  /\ UNCHANGED <<executed_steps, current_step, step_index, should_continue>>
             ELSE /\ variables' = CtxUpdate(CtxUpdate(seeded, Metadata), MoreMetadata)
                  /\ db_record_inserted' = db_client
                  /\ stored_state' = IF db_client THEN "running" ELSE stored_state
                  /\ executed_steps' = {}
                  /\ current_step' = 0
                  /\ step_index' = 0
                  /\ should_continue' = TRUE
                  /\ pc' = "loop"
    /\ UNCHANGED <<MAX_WORKFLOW_STEPS, workflow_steps, agent_graph, db_client, step_outputs, returned, trace>>

(* The loop condition of execute_workflow. *)
LoopCondition_inclusive ==
    /\ step_index < Len(workflow_steps)
    /\ should_continue
    /\ current_step <= MAX_WORKFLOW_STEPS

LoopCondition ==
    /\ step_index < Len(workflow_steps)
    /\ should_continue
    /\ current_step < MAX_WORKFLOW_STEPS

(* The head of one iteration, up to the await of execute_step. *)
BeginStep ==
    /\ pc = "loop"
    /\ LoopCondition
    /\ current_step' = current_step + 1
    /\ executed_steps' = executed_steps \cup {step_index}
    /\ pc' = "in_step"
    /\ UNCHANGED <<MAX_WORKFLOW_STEPS, workflow_steps, agent_graph, db_client, variables, step_outputs, step_index,
                   should_continue, final_outputs, db_record_inserted, execution_record,
                   stored_state, returned, trace>>

(* The rest of the iteration: execute_step returns, an output step's       *)
(* outputs are collected, the ordinal advances.                            *)
FinishStep(call, llm) ==
    /\ pc = "in_step"
    /\ LET type == workflow_steps[step_index + 1]
           r == execute_step(workflow_steps, step_index, variables, step_outputs, call, llm)
       IN /\ variables' = r.variables
          /\ step_outputs' = r.step_outputs
          /\ should_continue' = r.should_continue
          /\ final_outputs' = IF type = "output" THEN CtxUpdate(final_outputs, r.outputs)
                              ELSE final_outputs
          /\ trace' = (step_index :>
                          StepRecord(type, get_step_config(workflow_steps, step_index),
                                     call, variables, r)) @@ trace
    /\ step_index' = step_index + 1
    /\ pc' = "loop"
    /\ UNCHANGED <<MAX_WORKFLOW_STEPS, workflow_steps, agent_graph, db_client, executed_steps, current_step,
                   db_record_inserted, execution_record, stored_state, returned>>

(***************************************************************************)
(* The classification at loop exit: the state and the status detail.       *)
(***************************************************************************)
Classify_stop_fails(max, cur, idx, len, cont) ==
    IF cur >= max /\ idx < len
    THEN [state |-> "failed", detail |-> "terminated_max_steps",
          error_message |-> "Reached maximum workflow steps"]
    ELSE IF ~cont
    THEN [state |-> "failed", detail |-> "completed_stopped_by_decision",
          error_message |-> ""]
    ELSE [state |-> "completed", detail |-> "completed_successfully", error_message |-> ""]

Classify_ceiling_alone(max, cur, idx, len, cont) ==
    IF cur >= max
    THEN [state |-> "failed", detail |-> "terminated_max_steps",
          error_message |-> "Reached maximum workflow steps"]
    ELSE IF ~cont
    THEN [state |-> "completed", detail |-> "completed_stopped_by_decision",
          error_message |-> ""]
    ELSE [state |-> "completed", detail |-> "completed_successfully", error_message |-> ""]

Classify(max, cur, idx, len, cont) ==
    IF cur >= max /\ idx < len
    THEN [state |-> "failed", detail |-> "terminated_max_steps",
          error_message |-> "Reached maximum workflow steps"]
    ELSE IF ~cont
    THEN [state |-> "completed", detail |-> "completed_stopped_by_decision",
          error_message |-> ""]
    ELSE [state |-> "completed", detail |-> "completed_successfully", error_message |-> ""]

(* The dictionary execute_workflow returns, from the try block and from    *)
(* the except clause alike: the final status, the outputs the output       *)
(* steps have contributed so far, and the error text.                      *)
WorkflowResult_discards(status, outputs, error) ==
    [workflow_final_status |-> status,
     final_outputs |-> IF status = "failed" THEN EmptyMap ELSE outputs,
     error |-> error]

WorkflowResult_without_error(status, outputs, error) ==
    [workflow_final_status |-> status, final_outputs |-> outputs, error |-> ""]

WorkflowResult(status, outputs, error) ==
    [workflow_final_status |-> status, final_outputs |-> outputs, error |-> error]

ExitLoop ==
    /\ pc = "loop"
    /\ ~LoopCondition
    /\ LET c == Classify(MAX_WORKFLOW_STEPS, current_step, step_index, Len(workflow_steps), should_continue)
       IN /\ execution_record' = [execution_record EXCEPT
                                     !.state = c.state,
                                     !.error_message = c.error_message,
                                     !.final_outputs = final_outputs]
          /\ variables' = CtxSet(variables, "workflow_status_detail", Str(c.detail))
          /\ returned' = WorkflowResult(c.state, final_outputs, "")
    /\ pc' = "finally"
    /\ UNCHANGED <<MAX_WORKFLOW_STEPS, workflow_steps, agent_graph, db_client, step_outputs, executed_steps, current_step,
                   step_index, should_continue, final_outputs, db_record_inserted,
                   stored_state, trace>>

(* except Exception: the record is marked failed and the error returned. *)
HandleException ==
    /\ pc = "except"
    /\ execution_record' = [execution_record EXCEPT !.state = "failed",
                                                    !.error_message = "insert failed"]
    /\ returned' = WorkflowResult("failed", final_outputs, "insert failed")
    /\ pc' = "finally"
    /\ UNCHANGED <<MAX_WORKFLOW_STEPS, workflow_steps, agent_graph, db_client, variables, step_outputs, executed_steps,
                   current_step, step_index, should_continue, final_outputs,
                   db_record_inserted, stored_state, trace>>

(* The task running execute_workflow is cancelled while it awaits          *)
(* execute_step: asyncio.CancelledError is no Exception, so only the       *)
(* finally clause runs.                                                    *)
Cancel ==
    /\ pc = "in_step"
    /\ pc' = "finally"
    /\ UNCHANGED <<MAX_WORKFLOW_STEPS, workflow_steps, agent_graph, db_client, variables, step_outputs, executed_steps,
                   current_step, step_index, should_continue, final_outputs,
                   db_record_inserted, execution_record, stored_state, returned, trace>>

(* The state the finally clause leaves in the record. *)
FinalState_unnormalised(state) == state

FinalState(state) == IF state \notin {"completed", "failed"} THEN "failed" ELSE state

(* finally: the record is stamped, its state normalised, and handed to the *)
(* store if it was inserted (update_ok = FALSE: the update raises and is   *)
(* logged).                                                                *)
Finalize(update_ok) ==
    /\ pc = "finally"
    /\ execution_record' = [execution_record EXCEPT
                               !.state = FinalState(@),
                               !.error_message =
                                   IF execution_record.state \notin {"completed", "failed"}
                                      /\ @ = ""
                                   THEN "Workflow ended in an unexpected or ambiguous state."
                                   ELSE @,
                               !.finalized = TRUE]
    /\ stored_state' = IF db_record_inserted /\ db_client /\ update_ok
                       THEN FinalState(execution_record.state) ELSE stored_state
    /\ pc' = "done"
    /\ UNCHANGED <<MAX_WORKFLOW_STEPS, workflow_steps, agent_graph, db_client, variables, step_outputs, executed_steps,
                   current_step, step_index, should_continue, final_outputs,
                   db_record_inserted, returned, trace>>

Next ==
    \/ /\ \E initial_context \in InitialContexts, insert_ok \in BOOLEAN :
              StartWorkflow(initial_context, insert_ok)
       /\ UNCHANGED <<logVars, clientVars>>
    \/ /\ BeginStep
       /\ UNCHANGED <<logVars, clientVars>>
    \/ /\ pc = "in_step"
       /\ \E call \in (IF workflow_steps[step_index + 1] = "tool" THEN ToolCalls
                        ELSE {NoCall}),
             llm \in (IF workflow_steps[step_index + 1] = "tool" THEN {NoReply}
                      ELSE LLMReplies(workflow_steps[step_index + 1], step_index)) :
              FinishStep(call, llm)
       /\ UNCHANGED <<logVars, clientVars>>
    \/ /\ ExitLoop
       /\ UNCHANGED <<logVars, clientVars>>
    \/ /\ HandleException
       /\ UNCHANGED <<logVars, clientVars>>
    \/ /\ Cancel
       /\ UNCHANGED <<logVars, clientVars>>
    \/ /\ \E update_ok \in BOOLEAN : Finalize(update_ok)
       /\ UNCHANGED <<logVars, clientVars>>

Spec == Init /\ [][Next]_vars

(***************************************************************************)
(* The basic query workflow of workflow_tests.py under the default         *)
(* ceiling: the steps input, process, output, whose graph nodes declare    *)
(* NodeConfig.                                                             *)
(***************************************************************************)
BasicQueryWorkflow == <<"input", "process", "output">>

InitBasicQuery ==
    /\ MAX_WORKFLOW_STEPS = DefaultMaxWorkflowSteps
    /\ Constructed(BasicQueryWorkflow)

SpecBasicQuery == InitBasicQuery /\ [][Next]_vars

(***************************************************************************)
(* The step handlers on their own: one tool or decision step executed at   *)
(* ordinal 0 with a configuration handed in by the caller rather than      *)
(* looked up, as execute_step does after its configuration lookup.  Here   *)
(* agent_graph holds that one configuration, in the form get_step_config   *)
(* returns.                                                                *)
(***************************************************************************)
MappingVars == {"result", "item"}

MappingSources == {<<"$output">>, <<"a">>, <<"missing">>}

OutputMappings == UNION {[D -> MappingSources] : D \in SUBSET MappingVars}

ToolConfigs ==
    {[type |-> [t |-> "str", v |-> <<"tool">>],
      tool_name |-> [t |-> "str", v |-> <<"exa_search">>],
      input_mapping |-> [t |-> "map", v |-> im],
      output_mapping |-> [t |-> "map", v |-> om]] :
        im \in {EmptyMap, ("query" :> <<"q">>)}, om \in OutputMappings}
    \cup {[type |-> [t |-> "str", v |-> <<"tool">>]]}

Conditions ==
    {<<"not_empty", ":", "x">>, <<"not_empty", ":", "step_result">>, <<"x">>,
     <<"equals", ":", "x">>, <<"not_empty", ":", "x", ":", "y">>, <<"contains", ":", "tool">>}

DecisionConfigs ==
    {[type |-> [t |-> "str", v |-> <<"decision">>],
      condition |-> [t |-> "str", v |-> c],
      input_variables |-> [t |-> "list", v |-> <<>>]] : c \in Conditions}
    \cup {[type |-> [t |-> "str", v |-> <<"decision">>]]}

ProcessConfigs ==
    {[type |-> [t |-> "str", v |-> <<"process">>]],
     [type |-> [t |-> "str", v |-> <<"process">>],
      output_variable_name |-> [t |-> "str", v |-> <<"result">>]]}

HandlerConfigs == ToolConfigs \cup DecisionConfigs \cup ProcessConfigs

(* The contexts a handler is entered with. *)
HandlerContexts ==
    {EmptyMap, ("result" :> Str("old")), ("q" :> Str("v")), ("q" :> Cyclic)}
    \cup {("x" :> val) : val \in BoundValues}

(* The contents a tool call returns. *)
ToolResults ==
    {Dict("a" :> Str("1")), Dict(("a" :> List(<<>>)) @@ ("b" :> Str("2"))), Dict(EmptyMap),
     List(<<Str("text")>>), Str("a"), None}

(* What the model answers a decision step with: a JSON object that holds   *)
(* the condition result, truthy or falsy, alone or next to other outputs.  *)
DecisionReplies(ordinal) ==
    {JsonReply(StepKey(ordinal, "_condition_result") :> val) :
         val \in {Bool(TRUE), Bool(FALSE), Str(""), Str("false"), List(<<>>), None}}
    \cup {JsonReply((StepKey(ordinal, "_condition_result") :> Bool(FALSE))
                    @@ (StepKey(ordinal, "_explanation") :> Str("no")))}

HandlerCalls == {NoCall} \cup {[ok |-> TRUE, content |-> c] : c \in ToolResults}

InitHandler ==
    /\ MAX_WORKFLOW_STEPS = DefaultMaxWorkflowSteps
    /\ \E config \in HandlerConfigs :
          /\ workflow_steps = <<Join(config.type.v)>>
          /\ agent_graph = <<config>>
    /\ db_client = FALSE
    /\ pc = "handler"
    /\ variables \in HandlerContexts
    /\ step_outputs = EmptyMap
    /\ executed_steps = {0}
    /\ current_step = 1
    /\ step_index = 0
    /\ should_continue = TRUE
    /\ final_outputs = EmptyMap
    /\ db_record_inserted = FALSE
    /\ execution_record = NoRecord
    /\ stored_state = "absent"
    /\ returned = NotReturned
    /\ trace = EmptyMap
    /\ log_failures = 0
    /\ ClientUnused

(* The handler runs and execute_step files its outputs. *)
ExecuteHandler(call, llm) ==
    /\ pc = "handler"
    /\ LET type == workflow_steps[1]
           config == agent_graph[1]
           r == dispatch_step(type, step_index, config, variables, step_outputs, call, llm)
       IN /\ variables' = r.variables
          /\ step_outputs' = r.step_outputs
          /\ should_continue' = r.should_continue
          /\ trace' = (step_index :> StepRecord(type, config, call, variables, r)) @@ trace
    /\ pc' = "handled"
    /\ UNCHANGED <<MAX_WORKFLOW_STEPS, workflow_steps, agent_graph, db_client, executed_steps,
                   current_step, step_index, final_outputs, db_record_inserted,
                   execution_record, stored_state, returned>>

NextHandler ==
    /\ pc = "handler"
    /\ \E call \in (IF workflow_steps[1] = "tool" THEN HandlerCalls ELSE {NoCall}),
          llm \in (IF workflow_steps[1] = "tool" THEN {NoReply}
                   ELSE LLMReplies(workflow_steps[1], step_index) \cup {ApiErrorReply}
                        \cup (IF workflow_steps[1] = "decision"
                              THEN DecisionReplies(step_index) ELSE {})) :
           ExecuteHandler(call, llm)
    /\ UNCHANGED <<logVars, clientVars>>

SpecHandler == InitHandler /\ [][NextHandler]_vars

(***************************************************************************)
(* The log sink.  _log_event builds the log entry and hands it to the      *)
(* store inside a try whose except clause only logs the failure.  Nothing  *)
(* is written when the caller asked to skip the write for a record that    *)
(* was never inserted, or when there is no store.  write_ok = FALSE is    *)
(* the store's write raising.                                              *)
(***************************************************************************)
MaxLogFailures == 2

LogMaxLen == 2

log_event_unguarded(store, inserted, skip_if_execution_not_in_db, write_ok) ==
    IF skip_if_execution_not_in_db /\ ~inserted
    THEN [raised |-> FALSE, failed |-> FALSE]
    ELSE IF store
    THEN [raised |-> ~write_ok, failed |-> ~write_ok]
    ELSE [raised |-> FALSE, failed |-> FALSE]

log_event(store, inserted, skip_if_execution_not_in_db, write_ok) ==
    IF skip_if_execution_not_in_db /\ ~inserted
    THEN [raised |-> FALSE, failed |-> FALSE]
    ELSE IF store
    THEN [raised |-> FALSE, failed |-> ~write_ok]
    ELSE [raised |-> FALSE, failed |-> FALSE]

NoLog == [raised |-> FALSE, failed |-> FALSE]

(* Where an exception leaving the log call at this point would take        *)
(* execute_workflow: its except clause, its finally clause, or out.        *)
Propagate(target) ==
    /\ pc' = target
    /\ UNCHANGED <<MAX_WORKFLOW_STEPS, workflow_steps, agent_graph, db_client, variables,
                   step_outputs, executed_steps, current_step, step_index,
                   should_continue, final_outputs, db_record_inserted,
                   execution_record, stored_state, returned, trace>>

(* A part of execute_workflow together with the log write it makes. *)
Logged(l, Part, target) ==
    /\ l.failed => log_failures < MaxLogFailures
    /\ IF l.raised THEN Propagate(target) ELSE Part
    /\ log_failures' = IF l.failed THEN log_failures + 1 ELSE log_failures
    /\ UNCHANGED clientVars

(* "Workflow started" (skipped when the record is not in the store). *)
LogStartWorkflow(initial_context, insert_ok, write_ok) ==
    Logged(IF db_client /\ ~insert_ok THEN NoLog
           ELSE log_event(db_client, db_client, TRUE, write_ok),
           StartWorkflow(initial_context, insert_ok), "except")

(* "Starting step execution", before execute_step's try. *)
LogBeginStep(write_ok) ==
    Logged(log_event(db_client, db_record_inserted, FALSE, write_ok), BeginStep, "except")

(* The handler's log entries and "Step execution completed" (or the error  *)
(* entry of the step-level except).                                        *)
LogFinishStep(call, llm, write_ok) ==
    Logged(log_event(db_client, db_record_inserted, FALSE, write_ok),
           FinishStep(call, llm), "except")

(* The warning of the ceiling branch and the note of the decision branch;  *)
(* the two completed_successfully branches write nothing.                  *)
LogExitLoop(write_ok) ==
    LET c == Classify(MAX_WORKFLOW_STEPS, current_step, step_index, Len(workflow_steps),
                      should_continue)
    IN Logged(IF c.detail = "completed_successfully" THEN NoLog
              ELSE log_event(db_client, db_record_inserted, FALSE, write_ok),
              ExitLoop, "except")

(* "Workflow failed" in the except clause. *)
LogHandleException(write_ok) ==
    Logged(log_event(db_client, db_record_inserted, TRUE, write_ok),
           HandleException, "finally")

(* "Workflow execution attempt finished" in the finally clause. *)
LogFinalize(update_ok, write_ok) ==
    Logged(log_event(db_client, db_record_inserted, TRUE, write_ok),
           Finalize(update_ok), "done")

InitLogSink ==
    /\ MAX_WORKFLOW_STEPS \in 1..MaxCeiling
    /\ \E steps \in UNION {[1..n -> NodeType] : n \in 1..LogMaxLen} : Constructed(steps)

NextLogSink ==
    \/ \E insert_ok \in BOOLEAN, write_ok \in BOOLEAN :
           LogStartWorkflow(EmptyMap, insert_ok, write_ok)
    \/ \E write_ok \in BOOLEAN : LogBeginStep(write_ok)
    \/ /\ pc = "in_step"
       /\ \E call \in (IF workflow_steps[step_index + 1] = "tool" THEN ToolCalls
                        ELSE {NoCall}),
             llm \in (IF workflow_steps[step_index + 1] = "tool" THEN {NoReply}
                      ELSE LLMReplies(workflow_steps[step_index + 1], step_index)),
             write_ok \in BOOLEAN :
              LogFinishStep(call, llm, write_ok)
    \/ \E write_ok \in BOOLEAN : LogExitLoop(write_ok)
    \/ \E write_ok \in BOOLEAN : LogHandleException(write_ok)
    \/ /\ Cancel
       /\ UNCHANGED <<logVars, clientVars>>
    \/ \E update_ok \in BOOLEAN, write_ok \in BOOLEAN : LogFinalize(update_ok, write_ok)

SpecLogSink == InitLogSink /\ [][NextLogSink]_vars

(***************************************************************************)
(* Texts of client.py.  A tool result is far too long to be spelled out:   *)
(* a text is a sequence of pieces, each a run of characters of a named     *)
(* source.  A literal piece is named by its own characters.  "" is <<>>.   *)
(***************************************************************************)
Lit(s) == IF s = "" THEN <<>> ELSE <<[src |-> s, off |-> 0, chars |-> Len(s)]>>

Source(name, chars) ==
    IF chars = 0 THEN <<>> ELSE <<[src |-> name, off |-> 0, chars |-> chars]>>

(* The recursions below halve the text, so that a text of many pieces is  *)
(* walked to a small depth.                                                *)
Left(text) == SubSeq(text, 1, Len(text) \div 2)

Right(text) == SubSeq(text, Len(text) \div 2 + 1, Len(text))

(* len(text) *)
RECURSIVE Chars(_)
Chars(text) ==
    IF text = <<>> THEN 0
    ELSE IF Len(text) = 1 THEN text[1].chars
    ELSE Chars(Left(text)) + Chars(Right(text))

(* text[:n] for n >= 0 *)
RECURSIVE Prefix(_, _)
Prefix(text, n) ==
    IF n <= 0 \/ text = <<>> THEN <<>>
    ELSE IF Len(text) = 1
    THEN (IF text[1].chars <= n THEN text ELSE <<[text[1] EXCEPT !.chars = n]>>)
    ELSE IF Chars(Left(text)) >= n THEN Prefix(Left(text), n)
    ELSE Left(text) \o Prefix(Right(text), n - Chars(Left(text)))

(* text[n:] for n >= 0 *)
RECURSIVE Drop(_, _)
Drop(text, n) ==
    IF n <= 0 \/ text = <<>> THEN text
    ELSE IF Len(text) = 1
    THEN (IF text[1].chars <= n THEN <<>>
          ELSE <<[text[1] EXCEPT !.off = @ + n, !.chars = @ - n]>>)
    ELSE IF Chars(Left(text)) >= n THEN Drop(Left(text), n) \o Right(text)
    ELSE Drop(Right(text), n - Chars(Left(text)))

(* The texts of a list, one after the other. *)
RECURSIVE Concat(_)
Concat(texts) ==
    IF texts = <<>> THEN <<>>
    ELSE IF Len(texts) = 1 THEN texts[1]
    ELSE Concat(Left(texts)) \o Concat(Right(texts))

(* text[:n] for any n: a negative n counts from the end. *)
SliceTo(text, n) ==
    IF n >= 0 THEN Prefix(text, n) ELSE Prefix(text, Chars(text) + n)

(***************************************************************************)
(* _count_tokens.  The tokenizer is a library outside the repository: it   *)
(* is modelled by its rate, one token for every `rate` characters begun.   *)
(* When its encode raises, the estimate is len(text) // 4.                 *)
(***************************************************************************)
Fallback == [kind |-> "fallback", rate |-> 4]

Encoder(rate) == [kind |-> "encode", rate |-> rate]

(* An encoder that is not uniform: one token for each of the first `dense` *)
(* characters of a text, one for every four characters after them.         *)
Skewed(dense) == [kind |-> "skewed", rate |-> dense]

TokensOfChars(chars, tokenizer) ==
    IF tokenizer.kind = "encode"
    THEN (chars + tokenizer.rate - 1) \div tokenizer.rate
    ELSE IF tokenizer.kind = "skewed"
    THEN (IF chars <= tokenizer.rate THEN chars
          ELSE tokenizer.rate + (chars - tokenizer.rate) \div 4)
    ELSE chars \div 4

count_tokens(text, tokenizer) == TokensOfChars(Chars(text), tokenizer)

(* Per tool result (MAX_TOOL_RESULT_TOKENS). *)
MAX_TOOL_RESULT_TOKENS == 50000

(* The hard limit of _summarize_large_content. *)
HardLimitTokens == 1000000

(* chunk_size_chars *)
ChunkSizeChars == 100000

(* a * b = q * c + r with 0 <= r < c, for a, b >= 0 and c > 0, computed    *)
(* without leaving the range of the integers.                              *)
RECURSIVE MulDivMod(_, _, _)
MulDivMod(a, b, c) ==
    IF b = 0 THEN [q |-> 0, r |-> 0]
    ELSE LET h == MulDivMod(a, b \div 2, c)
             add == IF b % 2 = 1 THEN a ELSE 0
             r2 == 2 * h.r + (add % c)
         IN [q |-> 2 * h.q + (add \div c) + (r2 \div c), r |-> r2 % c]

(* int(a * (b / c)): rounded towards zero. *)
IntMulDiv(a, b, c) ==
    IF a >= 0 THEN MulDivMod(a, b, c).q ELSE 0 - MulDivMod(0 - a, b, c).q

(* What is handed to _summarize_large_content: None, a string, or a dict   *)
(* or list whose json.dumps(indent=2) rendering has `chars` characters.    *)
TextContent(name, chars) == [t |-> "text", v |-> Source(name, chars)]

DataContent(name, chars) == [t |-> "data", name |-> name, chars |-> chars]

ContentText(content) ==
    IF content = None THEN <<>>
    ELSE IF content.t = "text" THEN content.v
    ELSE Source("json.dumps(" \o content.name \o ")", content.chars)

(* _truncate_content_fallback: the loop cuts a tenth off while the text is *)
(* over the target and longer than 100 characters.  Shrink is the length   *)
(* it stops at, from the length it starts with; the iterations are taken   *)
(* eight at a time.                                                        *)
LoopGoesOn_without_floor(chars, target_tokens, tokenizer) ==
    TokensOfChars(chars, tokenizer) > target_tokens

LoopGoesOn(chars, target_tokens, tokenizer) ==
    TokensOfChars(chars, tokenizer) > target_tokens /\ chars > 100

Iterate(chars, target_tokens, tokenizer) ==
    IF LoopGoesOn(chars, target_tokens, tokenizer) THEN (chars * 9) \div 10 ELSE chars

Iterate8(chars, t, tk) ==
    Iterate(Iterate(Iterate(Iterate(Iterate(Iterate(Iterate(Iterate(
        chars, t, tk), t, tk), t, tk), t, tk), t, tk), t, tk), t, tk), t, tk)

RECURSIVE Shrink(_, _, _)
Shrink(chars, target_tokens, tokenizer) ==
    IF LoopGoesOn(chars, target_tokens, tokenizer)
    THEN Shrink(Iterate8(chars, target_tokens, tokenizer), target_tokens, tokenizer)
    ELSE chars

truncate_content_fallback(text, max_tokens, tool_name, original_tokens, tokenizer) ==
    LET truncation_msg ==
            Lit("\n\n[CONTENT TRUNCATED - Original: " \o ToString(original_tokens)
                \o " tokens from " \o tool_name \o ", showing first "
                \o ToString(max_tokens) \o " tokens]")
        target_tokens == max_tokens - count_tokens(truncation_msg, tokenizer)
        estimated_chars == IF original_tokens > 0
                           THEN IntMulDiv(target_tokens, Chars(text), original_tokens)
                           ELSE target_tokens * 4
        truncated == SliceTo(text, estimated_chars)
    IN Prefix(truncated, Shrink(Chars(truncated), target_tokens, tokenizer))
       \o truncation_msg

(* The chunks of 100000 characters, those of no token dropped. *)
Chunks(text, tokenizer) ==
    LET n == (Chars(text) + ChunkSizeChars - 1) \div ChunkSizeChars
        all == [i \in 1..n |-> Prefix(Drop(text, (i - 1) * ChunkSizeChars), ChunkSizeChars)]
        NonEmpty(chunk) == count_tokens(chunk, tokenizer) > 0
    IN SelectSeq(all, NonEmpty)

(* summarize_chunk for the chunk of this index: the summarizer's text, or  *)
(* the placeholder when its call raises.  summarizer.fails says which      *)
(* calls raise and summarizer.chars how long a summary is.                 *)
ChunkFails(summarizer, chunk_index) ==
    \/ summarizer.fails = "all"
    \/ summarizer.fails = "odd" /\ chunk_index % 2 = 1

summarize_chunk_drops_failure(chunk_index, summarizer) ==
    IF ChunkFails(summarizer, chunk_index)
    THEN <<>>
    ELSE Source("summary of chunk " \o ToString(chunk_index + 1), summarizer.chars)

summarize_chunk(chunk_index, summarizer) ==
    IF ChunkFails(summarizer, chunk_index)
    THEN Lit("[Chunk " \o ToString(chunk_index + 1) \o " summarization failed]")
    ELSE Source("summary of chunk " \o ToString(chunk_index + 1), summarizer.chars)

(* "\n\n".join(combined_summaries), for the chunks of index k and above. *)
JoinSummaries(n, k, summarizer) ==
    Concat([i \in 1..(n - k) |->
               (IF i = 1 THEN <<>> ELSE Lit("\n\n")) \o summarize_chunk(k + i - 1, summarizer)])

(***************************************************************************)
(* _summarize_large_content.  The result: whether it raised, the text      *)
(* returned, the branch taken, the chunks cut and the summarizer calls.    *)
(***************************************************************************)
BoundResult(raised, text, path, chunks) ==
    [raised |-> raised, text |-> text, path |-> path, chunks |-> chunks,
     summarizer_calls |-> chunks]

summarize_large_content_no_ceiling(content, max_tokens, tool_name, tokenizer, summarizer) ==
    LET text == ContentText(content)
        n == Len(Chunks(text, tokenizer))
    IN IF content = None \/ count_tokens(text, tokenizer) <= max_tokens
       THEN BoundResult(FALSE, text, "unchanged", 0)
       ELSE BoundResult(FALSE,
                        Lit("[CONTENT SUMMARIZED]\n\n") \o JoinSummaries(n, 0, summarizer),
                        "summarized", n)

summarize_large_content_always_summarizes(content, max_tokens, tool_name, tokenizer, summarizer) ==
    LET text == ContentText(content)
        n == Len(Chunks(text, tokenizer))
    IN BoundResult(FALSE,
                   Lit("[CONTENT SUMMARIZED]\n\n") \o JoinSummaries(n, 0, summarizer),
                   "summarized", n)

summarize_large_content_pipeline_raises(content, max_tokens, tool_name, tokenizer, summarizer) ==
    LET text == ContentText(content)
        token_count == count_tokens(text, tokenizer)
        n == Len(Chunks(text, tokenizer))
        summary_header == Lit("[CONTENT SUMMARIZED - Original: " \o ToString(token_count)
                              \o " tokens from " \o tool_name \o ", " \o ToString(n)
                              \o " chunks]\n\n")
        final_summary == summary_header \o JoinSummaries(n, 0, summarizer)
        summary_tokens == count_tokens(final_summary, tokenizer)
    IN IF content = None THEN BoundResult(FALSE, <<>>, "unchanged", 0)
       ELSE IF token_count <= max_tokens THEN BoundResult(FALSE, text, "unchanged", 0)
       ELSE IF token_count > HardLimitTokens THEN BoundResult(TRUE, <<>>, "refused", 0)
       ELSE IF summarizer.pipeline_error
       THEN BoundResult(TRUE, <<>>, "pipeline_error", n)
       ELSE IF summary_tokens > max_tokens
       THEN BoundResult(FALSE,
                        truncate_content_fallback(final_summary, max_tokens, tool_name,
                                                  summary_tokens, tokenizer),
                        "truncated_summary", n)
       ELSE BoundResult(FALSE, final_summary, "summarized", n)

summarize_large_content(content, max_tokens, tool_name, tokenizer, summarizer) ==
    LET text == ContentText(content)
        token_count == count_tokens(text, tokenizer)
        n == Len(Chunks(text, tokenizer))
        summary_header == Lit("[CONTENT SUMMARIZED - Original: " \o ToString(token_count)
                              \o " tokens from " \o tool_name \o ", " \o ToString(n)
                              \o " chunks]\n\n")
        final_summary == summary_header \o JoinSummaries(n, 0, summarizer)
        summary_tokens == count_tokens(final_summary, tokenizer)
    IN IF content = None THEN BoundResult(FALSE, <<>>, "unchanged", 0)
       ELSE IF token_count <= max_tokens THEN BoundResult(FALSE, text, "unchanged", 0)
       ELSE IF token_count > HardLimitTokens THEN BoundResult(TRUE, <<>>, "refused", 0)
       ELSE IF summarizer.pipeline_error
       THEN BoundResult(FALSE,
                        truncate_content_fallback(text, max_tokens, tool_name,
                                                  token_count, tokenizer),
                        "truncated_text", n)
       ELSE IF summary_tokens > max_tokens
       THEN BoundResult(FALSE,
                        truncate_content_fallback(final_summary, max_tokens, tool_name,
                                                  summary_tokens, tokenizer),
                        "truncated_summary", n)
       ELSE BoundResult(FALSE, final_summary, "summarized", n)

(***************************************************************************)
(* One call of _summarize_large_content on its own.  The contents are cut  *)
(* to the sizes around the budget and the hard limit; the budgets are the  *)
(* configured default, a tiny one and one above the hard limit.            *)
(***************************************************************************)
EngineUnused ==
    /\ MAX_WORKFLOW_STEPS = DefaultMaxWorkflowSteps
    /\ workflow_steps = <<>>
    /\ agent_graph = <<>>
    /\ db_client = FALSE
    /\ pc = "unused"
    /\ variables = EmptyMap
    /\ step_outputs = EmptyMap
    /\ executed_steps = {}
    /\ current_step = 0
    /\ step_index = 0
    /\ should_continue = TRUE
    /\ final_outputs = EmptyMap
    /\ db_record_inserted = FALSE
    /\ execution_record = NoRecord
    /\ stored_state = "absent"
    /\ returned = NotReturned
    /\ trace = EmptyMap
    /\ log_failures = 0
    /\ FirstRun

ContentSizes ==
    {0, 3, 40, 4 * MAX_TOOL_RESULT_TOKENS, 4 * MAX_TOOL_RESULT_TOKENS + 3,
     4 * MAX_TOOL_RESULT_TOKENS + 4, 8 * MAX_TOOL_RESULT_TOKENS + 3,
     17 * ChunkSizeChars, HardLimitTokens, HardLimitTokens + 1,
     4 * HardLimitTokens + 3, 4 * HardLimitTokens + 4}

Contents ==
    {None} \cup {TextContent("result", n) : n \in ContentSizes}
           \cup {DataContent("result", n) : n \in ContentSizes}

Budgets == {10, MAX_TOOL_RESULT_TOKENS, 2 * HardLimitTokens}

Tokenizers == {Fallback, Encoder(4), Encoder(1)}

Summarizers ==
    {[chars |-> 12000, fails |-> "none", pipeline_error |-> FALSE],
     [chars |-> 100, fails |-> "odd", pipeline_error |-> FALSE],
     [chars |-> 100, fails |-> "all", pipeline_error |-> FALSE],
     [chars |-> 100, fails |-> "none", pipeline_error |-> TRUE]}

OverflowCalls ==
    [content : Contents, max_tokens : Budgets, tool_name : {"exa_search"},
     tokenizer : Tokenizers, summarizer : Summarizers]

InitOverflow ==
    /\ EngineUnused
    /\ SessionUnused
    /\ overflow_call \in OverflowCalls
    /\ overflow_result = Unbound
    /\ overflow_previous = Unbound
    /\ ShrinkUnused
    /\ GatherUnused

Summarize ==
    /\ overflow_call # Unbound
    /\ overflow_result = Unbound
    /\ overflow_result' = summarize_large_content(overflow_call.content,
                                                  overflow_call.max_tokens,
                                                  overflow_call.tool_name,
                                                  overflow_call.tokenizer,
                                                  overflow_call.summarizer)
    /\ UNCHANGED <<engineVars, runVars, logVars, sessionVars, shrinkVars, gatherVars, overflow_call, overflow_previous>>

(* bound() applied, with the same budget, to the text it has just         *)
(* returned.                                                               *)
BoundAgain ==
    /\ overflow_result # Unbound
    /\ ~overflow_result.raised
    /\ overflow_previous = Unbound
    /\ overflow_previous' = overflow_result
    /\ overflow_call' = [overflow_call EXCEPT !.content = [t |-> "text", v |-> overflow_result.text]]
    /\ overflow_result' = Unbound
    /\ UNCHANGED <<engineVars, runVars, logVars, sessionVars, shrinkVars, gatherVars>>

NextOverflow == Summarize \/ BoundAgain

SpecOverflow == InitOverflow /\ [][NextOverflow]_vars

(***************************************************************************)
(* The same call, step by step through its asyncio.gather.  gather wraps   *)
(* every summarize_chunk coroutine in a task; the event loop runs the      *)
(* tasks one callback at a time, in the order they were created.           *)
(* summarize_chunk holds no await: self.anthropic is the synchronous       *)
(* Anthropic() client and messages.create blocks the thread until the      *)
(* response is there, so a task that has started runs to its return        *)
(* before the loop takes the next one.                                     *)
(***************************************************************************)
Scheduled == [state |-> "scheduled", result |-> <<>>]

Calling == [state |-> "calling", result |-> <<>>]

Done(result) == [state |-> "done", result |-> result]

InFlight(tasks) == Cardinality({i \in DOMAIN tasks : tasks[i].state = "calling"})

(* The event loop's next task: the first one created that has not run. *)
NextTask(tasks) ==
    CHOOSE i \in DOMAIN tasks :
        /\ tasks[i].state = "scheduled"
        /\ \A j \in 1..(i - 1) : tasks[j].state # "scheduled"

(* asyncio.gather(...): the results in the order of the awaitables. *)
gather_last_first(tasks) == [i \in DOMAIN tasks |-> tasks[Len(tasks) + 1 - i].result]

gather(tasks) == [i \in DOMAIN tasks |-> tasks[i].result]

(* "\n\n".join(combined_summaries) *)
JoinTexts(texts) ==
    Concat([i \in DOMAIN texts |-> (IF i = 1 THEN <<>> ELSE Lit("\n\n")) \o texts[i]])

(* The header put before the joined summaries. *)
summary_header(token_count, tool_name, chunks) ==
    Lit("[CONTENT SUMMARIZED - Original: " \o ToString(token_count) \o " tokens from "
        \o tool_name \o ", " \o ToString(chunks) \o " chunks]\n\n")

(* What _summarize_large_content returns once gather has returned. *)
combined_result(call, summaries) ==
    LET token_count == count_tokens(ContentText(call.content), call.tokenizer)
        final_summary == summary_header(token_count, call.tool_name, Len(summaries))
                         \o JoinTexts(summaries)
        summary_tokens == count_tokens(final_summary, call.tokenizer)
    IN IF summary_tokens > call.max_tokens
       THEN BoundResult(FALSE,
                        truncate_content_fallback(final_summary, call.max_tokens,
                                                  call.tool_name, summary_tokens,
                                                  call.tokenizer),
                        "truncated_summary", Len(summaries))
       ELSE BoundResult(FALSE, final_summary, "summarized", Len(summaries))

(* The call goes on to the chunks: the content is over the budget and  *)
(* within the hard limit.                                              *)
ReachesChunks(call) ==
    /\ call.content # None
    /\ count_tokens(ContentText(call.content), call.tokenizer) > call.max_tokens
    /\ count_tokens(ContentText(call.content), call.tokenizer) <= HardLimitTokens

GatherSizes ==
    {40, 2 * ChunkSizeChars + 3, 4 * MAX_TOOL_RESULT_TOKENS + 4, 17 * ChunkSizeChars,
     4 * HardLimitTokens, 4 * HardLimitTokens + 4}

GatherSummarizers ==
    {[chars |-> 12000, fails |-> "none", pipeline_error |-> FALSE],
     [chars |-> 100, fails |-> "none", pipeline_error |-> FALSE],
     [chars |-> 100, fails |-> "odd", pipeline_error |-> FALSE],
     [chars |-> 12000, fails |-> "odd", pipeline_error |-> FALSE],
     [chars |-> 100, fails |-> "all", pipeline_error |-> FALSE]}

GatherCalls ==
    [content : {TextContent("result", n) : n \in GatherSizes},
     max_tokens : {10, MAX_TOOL_RESULT_TOKENS}, tool_name : {"exa_search"},
     tokenizer : Tokenizers, summarizer : GatherSummarizers]

InitGather ==
    /\ EngineUnused
    /\ SessionUnused
    /\ overflow_call \in GatherCalls
    /\ overflow_result = Unbound
    /\ overflow_previous = Unbound
    /\ ShrinkUnused
    /\ gather_pc = "entered"
    /\ chunk_tasks = <<>>
    /\ chunk_summaries = <<>>
    /\ completed_chunks = <<>>
    /\ in_flight_max = 0

(* The content is within the budget, or over the hard limit. *)
ReturnEarly ==
    /\ gather_pc = "entered"
    /\ ~ReachesChunks(overflow_call)
    /\ overflow_result' = summarize_large_content(overflow_call.content,
                                                  overflow_call.max_tokens,
                                                  overflow_call.tool_name,
                                                  overflow_call.tokenizer,
                                                  overflow_call.summarizer)
    /\ gather_pc' = "returned"
    /\ UNCHANGED <<engineVars, runVars, logVars, sessionVars, shrinkVars, overflow_call, overflow_previous,
                   chunk_tasks, chunk_summaries, completed_chunks, in_flight_max>>

(* The chunks are cut and gather makes a task of every summarize_chunk. *)
ScheduleChunks ==
    /\ gather_pc = "entered"
    /\ ReachesChunks(overflow_call)
    /\ chunk_tasks' = [i \in DOMAIN Chunks(ContentText(overflow_call.content),
                                           overflow_call.tokenizer) |-> Scheduled]
    /\ gather_pc' = "gathering"
    /\ UNCHANGED <<engineVars, runVars, logVars, sessionVars, shrinkVars, overflow_call, overflow_result,
                   overflow_previous, chunk_summaries, completed_chunks, in_flight_max>>

(* The event loop starts the next task, which goes straight into its   *)
(* call of messages.create.                                            *)
StartChunkCall ==
    /\ gather_pc = "gathering"
    /\ InFlight(chunk_tasks) = 0
    /\ {i \in DOMAIN chunk_tasks : chunk_tasks[i].state = "scheduled"} # {}
    /\ chunk_tasks' = [chunk_tasks EXCEPT ![NextTask(chunk_tasks)] = Calling]
    /\ in_flight_max' = IF InFlight(chunk_tasks') > in_flight_max
                        THEN InFlight(chunk_tasks') ELSE in_flight_max
    /\ UNCHANGED <<engineVars, runVars, logVars, sessionVars, shrinkVars, overflow_call, overflow_result,
                   overflow_previous, gather_pc, chunk_summaries, completed_chunks>>

(* The call returns or raises, and summarize_chunk returns the summary *)
(* or its placeholder.                                                 *)
ReturnChunkCall ==
    /\ gather_pc = "gathering"
    /\ \E i \in DOMAIN chunk_tasks :
          /\ chunk_tasks[i].state = "calling"
          /\ chunk_tasks' = [chunk_tasks EXCEPT
                                ![i] = Done(summarize_chunk(i - 1, overflow_call.summarizer))]
          /\ completed_chunks' = Append(completed_chunks, i - 1)
    /\ UNCHANGED <<engineVars, runVars, logVars, sessionVars, shrinkVars, overflow_call, overflow_result,
                   overflow_previous, gather_pc, chunk_summaries, in_flight_max>>

(* Every task is done: gather returns and the summaries are combined. *)
CombineSummaries ==
    /\ gather_pc = "gathering"
    /\ \A i \in DOMAIN chunk_tasks : chunk_tasks[i].state = "done"
    /\ chunk_summaries' = gather(chunk_tasks)
    /\ overflow_result' = combined_result(overflow_call, chunk_summaries')
    /\ gather_pc' = "returned"
    /\ UNCHANGED <<engineVars, runVars, logVars, sessionVars, shrinkVars, overflow_call, overflow_previous,
                   chunk_tasks, completed_chunks, in_flight_max>>

NextGather ==
    \/ ReturnEarly
    \/ ScheduleChunks
    \/ StartChunkCall
    \/ ReturnChunkCall
    \/ CombineSummaries

SpecGather == InitGather /\ [][NextGather]_vars

(***************************************************************************)
(* _truncate_content_fallback step by step: the entry up to the first      *)
(* slice, one action for every iteration of the while loop, and the        *)
(* return.  The function holds no await, so it runs to its end once it is  *)
(* entered: the steps of the loop are weakly fair.  Both callers pass a    *)
(* text that is over max_tokens together with its own token count.         *)
(***************************************************************************)
ShrinkSizes == {101, 250, 4007, 200004, 400000, 4 * HardLimitTokens}

ShrinkBudgets == {10, 30, 1000, MAX_TOOL_RESULT_TOKENS}

ShrinkTokenizers == {Fallback, Encoder(4), Encoder(1), Skewed(20000)}

ShrinkCalls ==
    {[text |-> Source("result", n), max_tokens |-> m, tool_name |-> "exa_search",
      original_tokens |-> TokensOfChars(n, tk), tokenizer |-> tk] :
         <<n, m, tk>> \in {c \in ShrinkSizes \X ShrinkBudgets \X ShrinkTokenizers :
                              TokensOfChars(c[1], c[3]) > c[2]}}

truncation_msg(call) ==
    Lit("\n\n[CONTENT TRUNCATED - Original: " \o ToString(call.original_tokens)
        \o " tokens from " \o call.tool_name \o ", showing first "
        \o ToString(call.max_tokens) \o " tokens]")

InitShrink ==
    /\ EngineUnused
    /\ SessionUnused
    /\ overflow_call = Unbound
    /\ overflow_result = Unbound
    /\ overflow_previous = Unbound
    /\ GatherUnused
    /\ shrink_pc = "entered"
    /\ shrink_call \in ShrinkCalls
    /\ shrink_target = 0
    /\ shrink_truncated = <<>>
    /\ shrink_result = Unbound

(* target_tokens, the estimate and the first slice. *)
SliceEstimate ==
    /\ shrink_pc = "entered"
    /\ LET target_tokens == shrink_call.max_tokens
                             - count_tokens(truncation_msg(shrink_call), shrink_call.tokenizer)
           estimated_chars == IF shrink_call.original_tokens > 0
                              THEN IntMulDiv(target_tokens, Chars(shrink_call.text),
                                             shrink_call.original_tokens)
                              ELSE target_tokens * 4
       IN /\ shrink_target' = target_tokens
          /\ shrink_truncated' = SliceTo(shrink_call.text, estimated_chars)
    /\ shrink_pc' = "loop"
    /\ UNCHANGED <<engineVars, runVars, logVars, sessionVars, overflowVars, shrink_call, shrink_result>>

(* One iteration of the while loop. *)
ShrinkOnce ==
    /\ shrink_pc = "loop"
    /\ LoopGoesOn(Chars(shrink_truncated), shrink_target, shrink_call.tokenizer)
    /\ shrink_truncated' = SliceTo(shrink_truncated, (Chars(shrink_truncated) * 9) \div 10)
    /\ UNCHANGED <<engineVars, runVars, logVars, sessionVars, overflowVars, shrink_pc, shrink_call,
                   shrink_target, shrink_result>>

(* The loop is left and the text returned with its notice. *)
ReturnTruncated ==
    /\ shrink_pc = "loop"
    /\ ~LoopGoesOn(Chars(shrink_truncated), shrink_target, shrink_call.tokenizer)
    /\ shrink_result' = [text |-> shrink_truncated \o truncation_msg(shrink_call)]
    /\ shrink_pc' = "returned"
    /\ UNCHANGED <<engineVars, runVars, logVars, sessionVars, overflowVars, shrink_call, shrink_target,
                   shrink_truncated>>

NextShrink == SliceEstimate \/ ShrinkOnce \/ ReturnTruncated

SpecShrink == InitShrink /\ [][NextShrink]_vars /\ WF_vars(ShrinkOnce \/ ReturnTruncated)

(***************************************************************************)
(* MCPClient.execute_llm_interaction.  A text of the model is the sequence *)
(* of its pieces, white space being pieces of its own, so that str.strip   *)
(* is the removal of the white pieces at both ends.                        *)
(***************************************************************************)
MaxTurns == 2

Whitespace == {"", " ", "\n"}

RECURSIVE LStrip(_)
LStrip(pieces) ==
    IF pieces # <<>> /\ Head(pieces) \in Whitespace THEN LStrip(Tail(pieces)) ELSE pieces

RECURSIVE RStrip(_)
RStrip(pieces) ==
    IF pieces # <<>> /\ pieces[Len(pieces)] \in Whitespace
    THEN RStrip(SubSeq(pieces, 1, Len(pieces) - 1)) ELSE pieces

Strip(pieces) == RStrip(LStrip(pieces))

(* "\n".join(texts) *)
RECURSIVE JoinLines(_)
JoinLines(texts) ==
    IF texts = <<>> THEN <<>>
    ELSE IF Len(texts) = 1 THEN texts[1]
    ELSE texts[1] \o <<"\n">> \o JoinLines(Tail(texts))

final_text_unstripped(aggregated) == Join(JoinLines(aggregated))

final_text_of(aggregated) == Join(Strip(JoinLines(aggregated)))

(* The blocks of a model reply. *)
TextBlock(pieces) == [type |-> "text", text |-> pieces, id |-> "", name |-> ""]

ToolUse(id, name) == [type |-> "tool_use", text |-> <<>>, id |-> id, name |-> name]

Thinking == [type |-> "thinking", text |-> <<>>, id |-> "", name |-> ""]

(* What the model sends back in one turn: the call raises, or a list of    *)
(* content blocks.                                                         *)
ModelRaises == [raised |-> TRUE, content |-> <<>>]

Reply(blocks) == [raised |-> FALSE, content |-> blocks]

ModelReplies ==
    {ModelRaises, Reply(<<>>), Reply(<<Thinking, TextBlock(<<"answer">>)>>),
     Reply(<<TextBlock(<<" ", "answer", "\n">>)>>),
     Reply(<<TextBlock(<<" ">>)>>),
     Reply(<<ToolUse("tu_1", "exa_search")>>),
     Reply(<<ToolUse("tu_2", "unknown_tool")>>),
     Reply(<<TextBlock(<<"looking">>), ToolUse("tu_1", "exa_search")>>),
     Reply(<<ToolUse("tu_1", "exa_search"), ToolUse("tu_2", "unknown_tool")>>),
     Reply(<<ToolUse("tu_1", "exa_search"), ToolUse("tu_3", "exa_search")>>)}

(* What the tool channel and the overflow manager's environment do with    *)
(* one call: call_tool raises, or gives a content; the tokenizer and the   *)
(* summarizer are those the overflow manager meets.                        *)
ToolRaises ==
    [ok |-> FALSE, content |-> None, tokenizer |-> Fallback,
     summarizer |-> [chars |-> 100, fails |-> "all", pipeline_error |-> FALSE]]

ToolGives(content, tokenizer, summarizer) ==
    [ok |-> TRUE, content |-> content, tokenizer |-> tokenizer, summarizer |-> summarizer]

ToolOutcomes ==
    {ToolRaises,
     ToolGives(DataContent("result", 40), Encoder(4),
               [chars |-> 100, fails |-> "all", pipeline_error |-> FALSE]),
     ToolGives(DataContent("result", 4 * MAX_TOOL_RESULT_TOKENS + 4), Encoder(4),
               [chars |-> 100, fails |-> "odd", pipeline_error |-> FALSE]),
     ToolGives(DataContent("result", 4 * HardLimitTokens + 4), Fallback,
               [chars |-> 100, fails |-> "all", pipeline_error |-> FALSE]),
     ToolGives(DataContent("result", 17 * ChunkSizeChars), Fallback,
               [chars |-> 12000, fails |-> "none", pipeline_error |-> FALSE])}

(* The entries of the conversation and of the tool outputs. *)
ToolResult(tool_use_id, text, is_error) ==
    [type |-> "tool_result", tool_use_id |-> tool_use_id, text |-> text,
     is_error |-> is_error]

ErrorOutput(error_detail) == [t |-> "error", v |-> error_detail]

OutputKey(request) == IF request.id # "" THEN request.id ELSE request.name

(* The blocks of a reply that ask for a tool of the catalog. *)
Recognized_any(blocks, catalog) ==
    LET Asked(block) == block.type = "tool_use"
    IN SelectSeq(blocks, Asked)

Recognized(blocks, catalog) ==
    LET Known(block) == block.type = "tool_use" /\ block.name \in catalog
    IN SelectSeq(blocks, Known)

TextsOf(blocks) ==
    LET IsText(block) == block.type = "text"
        texts == SelectSeq(blocks, IsText)
    IN [n \in 1..Len(texts) |-> texts[n].text]

InitSession ==
    /\ EngineUnused
    /\ OverflowUnused
    /\ MAX_LLM_INTERACTION_TURNS \in 1..MaxTurns
    /\ available_mcp_tools_cache \in {{}, {"exa_search"}}
    /\ session_pc = "idle"
    /\ turn = 0
    /\ messages = <<>>
    /\ aggregated_text_responses = <<>>
    /\ all_tool_outputs = <<>>
    /\ requested_mcp_tool_calls = NotAssigned
    /\ tool_results_for_llm_message = <<>>
    /\ model_calls = 0
    /\ tool_calls = <<>>
    /\ session_returned = Unbound

(* The entry of the function: no MCP session, no interaction. *)
StartInteraction(connected) ==
    /\ session_pc = "idle"
    /\ IF connected
       THEN /\ session_pc' = "model"
            /\ session_returned' = session_returned
       ELSE /\ session_pc' = "raised"
            /\ session_returned' = [raised |-> "ConnectionError"]
    /\ UNCHANGED <<engineVars, runVars, logVars, overflowVars, shrinkVars, MAX_LLM_INTERACTION_TURNS,
                   available_mcp_tools_cache, turn, messages, aggregated_text_responses,
                   all_tool_outputs, requested_mcp_tool_calls,
                   tool_results_for_llm_message, model_calls, tool_calls>>

(* One turn up to the tool calls: the model is called; its blocks are      *)
(* appended to the conversation, its texts to the aggregated texts, and    *)
(* its requests for tools of the catalog are kept.  With none the loop is  *)
(* left.                                                                   *)
CallModel(reply) ==
    /\ session_pc = "model"
    /\ model_calls' = model_calls + 1
    /\ IF reply.raised
       THEN /\ aggregated_text_responses' =
                   Append(aggregated_text_responses, <<"Error calling Anthropic API">>)
            /\ session_pc' = "after_loop"
            /\ UNCHANGED <<messages, requested_mcp_tool_calls, tool_results_for_llm_message>>
       ELSE LET requested == Recognized(reply.content, available_mcp_tools_cache)
                texts == TextsOf(reply.content)
            IN /\ messages' = Append(messages, [role |-> "assistant",
                                                content |-> reply.content])
               /\ requested_mcp_tool_calls' = Assigned(requested)
               /\ IF requested = <<>>
                  THEN /\ aggregated_text_responses' =
                              IF texts = <<>> /\ aggregated_text_responses = <<>>
                              THEN <<<<"[LLM interaction ended without text output or MCP tool calls this turn.]">>>>
                              ELSE aggregated_text_responses \o texts
                       /\ session_pc' = "after_loop"
                       /\ UNCHANGED tool_results_for_llm_message
                  ELSE /\ aggregated_text_responses' = aggregated_text_responses \o texts
                       /\ tool_results_for_llm_message' = <<>>
                       /\ session_pc' = "tools"
    /\ UNCHANGED <<engineVars, runVars, logVars, overflowVars, shrinkVars, MAX_LLM_INTERACTION_TURNS,
                   available_mcp_tools_cache, turn, all_tool_outputs, tool_calls,
                   session_returned>>

(* The tool-result entry and the tool output of one requested call: the    *)
(* overflow manager's text and the serialized result, or, when call_tool   *)
(* or the overflow manager raises, the error entry.                        *)
ToolCallEffect_drops_error(request, outcome) ==
    LET bounded == summarize_large_content(outcome.content, MAX_TOOL_RESULT_TOKENS,
                                           request.name, outcome.tokenizer,
                                           outcome.summarizer)
    IN IF outcome.ok /\ ~bounded.raised
       THEN [result |-> ToolResult(request.id, bounded.text, FALSE),
             output |-> outcome.content, raised |-> FALSE]
       ELSE [result |-> ToolResult("", <<>>, FALSE),
             output |-> None, raised |-> FALSE]

ToolCallEffect(request, outcome) ==
    LET bounded == summarize_large_content(outcome.content, MAX_TOOL_RESULT_TOKENS,
                                           request.name, outcome.tokenizer,
                                           outcome.summarizer)
    IN IF outcome.ok /\ ~bounded.raised
       THEN [result |-> ToolResult(request.id, bounded.text, FALSE),
             output |-> outcome.content, raised |-> FALSE]
       ELSE [result |-> ToolResult(request.id,
                                   Lit("Error executing MCP tool " \o request.name), TRUE),
             output |-> ErrorOutput("Error executing MCP tool " \o request.name),
             raised |-> FALSE]

(* The next requested call is made.  After the last one the results go to  *)
(* the conversation as one user message and the loop goes on to the next   *)
(* turn, if there is one.                                                  *)
TurnsLeft_one_more(t, max) == t + 1 <= max

TurnsLeft(t, max) == t + 1 < max

(* tool_results_for_llm_message.append(...): the entry of a call goes to    *)
(* the end of the entries of the round.                                    *)
AppendResult_in_front(results, result) == <<result>> \o results

AppendResult(results, result) == Append(results, result)

CallTool(outcome) ==
    /\ session_pc = "tools"
    /\ LET k == Len(tool_results_for_llm_message) + 1
           request == requested_mcp_tool_calls.calls[k]
           e == ToolCallEffect(request, outcome)
           results == AppendResult(tool_results_for_llm_message, e.result)
       IN /\ tool_calls' = Append(tool_calls, [id |-> request.id, name |-> request.name,
                                                outcome |-> outcome])
          /\ IF e.raised
             THEN /\ session_pc' = "raised"
                  /\ session_returned' = [raised |-> "ValueError"]
                  /\ UNCHANGED <<all_tool_outputs, tool_results_for_llm_message,
                                 messages, turn>>
             ELSE /\ all_tool_outputs' = (OutputKey(request) :> e.output) @@ all_tool_outputs
                  /\ tool_results_for_llm_message' = results
                  /\ session_returned' = session_returned
                  /\ IF k < Len(requested_mcp_tool_calls.calls)
                     THEN UNCHANGED <<messages, turn, session_pc>>
                     ELSE /\ messages' = Append(messages, [role |-> "user",
                                                           content |-> results])
                          /\ IF TurnsLeft(turn, MAX_LLM_INTERACTION_TURNS)
                             THEN turn' = turn + 1 /\ session_pc' = "model"
                             ELSE turn' = turn /\ session_pc' = "after_loop"
    /\ UNCHANGED <<engineVars, runVars, logVars, overflowVars, shrinkVars, MAX_LLM_INTERACTION_TURNS,
                   available_mcp_tools_cache, aggregated_text_responses,
                   requested_mcp_tool_calls, model_calls>>

(* turn == MAX_LLM_INTERACTION_TURNS - 1 and requested_mcp_tool_calls: the *)
(* loop variable is that of the last turn and the last list of requests    *)
(* is not empty.                                                           *)
NoticeDue_after_last_turn(t, max, requested) == t = max /\ requested # <<>>

NoticeDue(t, max, requested) == t = max - 1 /\ requested # <<>>

(* After the loop: the notice of the last turn, the aggregated text and    *)
(* the return.  requested_mcp_tool_calls is unbound when the first call of *)
(* the model raised: reading it raises UnboundLocalError.                  *)
FinishInteraction ==
    /\ session_pc = "after_loop"
    /\ IF turn = MAX_LLM_INTERACTION_TURNS - 1 /\ ~requested_mcp_tool_calls.bound
       THEN /\ session_pc' = "raised"
            /\ session_returned' = [raised |-> "UnboundLocalError"]
            /\ UNCHANGED aggregated_text_responses
       ELSE LET notice == NoticeDue(turn, MAX_LLM_INTERACTION_TURNS,
                                    requested_mcp_tool_calls.calls)
                aggregated == IF notice
                              THEN Append(aggregated_text_responses,
                                          <<"[LLM interaction reached max turns with pending tool calls.]">>)
                              ELSE aggregated_text_responses
                final_text == final_text_of(aggregated)
            IN /\ aggregated_text_responses' = aggregated
               /\ session_returned' =
                      [final_text |-> IF final_text = "" /\ DOMAIN all_tool_outputs = {}
                                      THEN "[LLM interaction produced no textual output and no tool outputs.]"
                                      ELSE final_text,
                       all_tool_outputs |-> all_tool_outputs]
               /\ session_pc' = "returned"
    /\ UNCHANGED <<engineVars, runVars, logVars, overflowVars, shrinkVars, MAX_LLM_INTERACTION_TURNS,
                   available_mcp_tools_cache, turn, messages, all_tool_outputs,
                   requested_mcp_tool_calls, tool_results_for_llm_message, model_calls,
                   tool_calls>>

NextSession ==
    \/ \E connected \in BOOLEAN : StartInteraction(connected)
    \/ \E reply \in ModelReplies : CallModel(reply)
    \/ \E outcome \in ToolOutcomes : CallTool(outcome)
    \/ FinishInteraction

SpecSession == InitSession /\ [][NextSession]_vars

(***************************************************************************)
(* execute_workflow called again on the same runner.  The runner keeps its *)
(* context (self.context is made in the constructor), its counters and its *)
(* store; the call makes a new execution record and returns a new          *)
(* dictionary.  The entry of the second call is StartWorkflow.             *)
(***************************************************************************)
MaxRuns == 2

RerunWorkflows == {<<"input">>, <<"process", "output">>, <<"decision", "process">>}

RerunContexts == {EmptyMap, ("seed" :> Str("v"))}

InitRerun ==
    /\ MAX_WORKFLOW_STEPS = DefaultMaxWorkflowSteps
    /\ \E steps \in RerunWorkflows : Constructed(steps)

(* The keys the steps of the run have written into the context. *)
WrittenBySteps == UNION {DOMAIN step_outputs[n] : n \in DOMAIN step_outputs}

CallAgain ==
    /\ pc = "done"
    /\ run_number < MaxRuns
    /\ run_number' = run_number + 1
    /\ earlier_written' = WrittenBySteps
    /\ pc' = "idle"
    /\ execution_record' = NoRecord
    /\ stored_state' = "absent"
    /\ returned' = NotReturned
    /\ trace' = EmptyMap
    /\ UNCHANGED <<MAX_WORKFLOW_STEPS, workflow_steps, agent_graph, db_client, variables,
                   step_outputs, executed_steps, current_step, step_index, should_continue,
                   final_outputs, db_record_inserted>>
    /\ UNCHANGED <<logVars, sessionVars, overflowVars, shrinkVars>>

NextRerun ==
    \/ /\ \E initial_context \in RerunContexts, insert_ok \in BOOLEAN :
              StartWorkflow(initial_context, insert_ok)
       /\ UNCHANGED <<logVars, clientVars>>
    \/ /\ BeginStep
       /\ UNCHANGED <<logVars, clientVars>>
    \/ /\ pc = "in_step"
       /\ \E llm \in LLMReplies(workflow_steps[step_index + 1], step_index) :
              FinishStep(NoCall, llm)
       /\ UNCHANGED <<logVars, clientVars>>
    \/ /\ ExitLoop
       /\ UNCHANGED <<logVars, clientVars>>
    \/ /\ HandleException
       /\ UNCHANGED <<logVars, clientVars>>
    \/ /\ \E update_ok \in BOOLEAN : Finalize(update_ok)
       /\ UNCHANGED <<logVars, clientVars>>
    \/ CallAgain

SpecRerun == InitRerun /\ [][NextRerun]_vars

(***************************************************************************)
(* Properties of the workflow step engine.                                 *)
(***************************************************************************)
Terminal == {"completed", "failed"}

(* The main loop ran to its exit and execute_workflow returned normally. *)
LoopExited ==
    /\ pc \in {"finally", "done"}
    /\ returned.workflow_final_status # "none"
    /\ returned.error = ""

StatusDetail == CtxGet(variables, "workflow_status_detail")

(* C1: the execution record is created running, changes state only once,   *)
(* from running to completed or failed, never changes again, and every run *)
(* that has ended (normally, by an exception or by cancellation) has its   *)
(* record in completed or failed.                                          *)
C1_RecordLifecycle ==
    /\ [][execution_record'.state # execution_record.state =>
            \/ execution_record.state = "absent" /\ execution_record'.state = "running"
            \/ execution_record.state = "running" /\ execution_record'.state \in Terminal]_vars
    /\ [](pc = "done" => execution_record.state \in Terminal)

(* A run ended by cancellation inside a step: nothing was returned and the *)
(* finalizer alone made the record terminal.                               *)
C1_Witness ==
    /\ pc = "done"
    /\ returned = NotReturned
    /\ execution_record.state = "failed"
    /\ execution_record.finalized

(* C2: a run over more than MAX_WORKFLOW_STEPS steps whose loop exits with *)
(* continue still true ends failed with detail terminated_max_steps and    *)
(* has executed exactly MAX_WORKFLOW_STEPS steps, the ordinals             *)
(* 0..MAX_WORKFLOW_STEPS-1.                                                *)
C2_CeilingFailsRun ==
    (LoopExited /\ Len(workflow_steps) > MAX_WORKFLOW_STEPS /\ should_continue)
    => /\ execution_record.state = "failed"
       /\ returned.workflow_final_status = "failed"
       /\ StatusDetail = Str("terminated_max_steps")
       /\ current_step = MAX_WORKFLOW_STEPS
       /\ executed_steps = 0..(MAX_WORKFLOW_STEPS - 1)
       /\ DOMAIN trace = 0..(MAX_WORKFLOW_STEPS - 1)

C2_Witness ==
    /\ pc = "done"
    /\ LoopExited
    /\ Len(workflow_steps) = MAX_WORKFLOW_STEPS + 1
    /\ should_continue
    /\ current_step = MAX_WORKFLOW_STEPS
    /\ execution_record.state = "failed"
    /\ StatusDetail = Str("terminated_max_steps")

(* C3: the ordinals executed so far are 0, 1, ... in order without gap or  *)
(* repetition (current_step counts them and never passes the ceiling), and *)
(* while step n executes the side-index of step outputs holds only         *)
(* ordinals below n, each with its outputs merged into the context.        *)
C3_SequentialSteps ==
    /\ executed_steps = 0..(current_step - 1)
    /\ current_step <= MAX_WORKFLOW_STEPS
    /\ step_index <= current_step
    /\ current_step <= step_index + 1
    /\ pc = "in_step" => current_step = step_index + 1
    /\ pc = "loop" => current_step = step_index
    /\ DOMAIN step_outputs \subseteq 0..(step_index - 1)
    /\ \A n \in DOMAIN step_outputs :
           \A k \in DOMAIN step_outputs[n] : k \in DOMAIN variables

(* Step 1 is executing and step 0's outputs are already in the context. *)
C3_Witness ==
    /\ pc = "in_step"
    /\ step_index = 1
    /\ DOMAIN step_outputs = {0}
    /\ step_outputs[0] # EmptyMap

(* C4: a step whose execution fails (failure is "exception" when the      *)
(* exception leaves the handler, "tool" when the tool call raises, "llm"   *)
(* when the LLM session fails) hands continue = false to the engine, and   *)
(* no step with a larger ordinal is executed in that run.                  *)
C4_FailureHaltsRun ==
    \A n \in DOMAIN trace :
        trace[n].failure # "none" =>
            /\ ~trace[n].should_continue
            /\ \A m \in executed_steps : m <= n

(* The last ordinal the trace holds: the step after which the loop exited. *)
LastStep == trace[step_index - 1]

StoppedByDecision ==
    /\ step_index - 1 \in DOMAIN trace
    /\ LastStep.type = "decision"
    /\ LastStep.failure = "none"
    /\ ~LastStep.should_continue

(* C5: a run whose loop exited with continue = false set by a step failure *)
(* ends failed; a run ends completed with continue = false only when its   *)
(* last step was a decision step that evaluated to false.                  *)
C5_FailureEndsFailed ==
    (LoopExited /\ ~should_continue) =>
        /\ LastStep.failure # "none" => execution_record.state = "failed"
        /\ execution_record.state = "completed" => StoppedByDecision

(* The ceiling outcome of the classification: the count of executed steps  *)
(* has reached MAX_WORKFLOW_STEPS and steps remain.                        *)
AtCeilingWithStepsLeft ==
    /\ current_step >= MAX_WORKFLOW_STEPS
    /\ step_index < Len(workflow_steps)

(* C6 as stated: whenever a decision step has evaluated to false, the run  *)
(* ends in state completed.                                                *)
C6_DecisionStopCompletes ==
    (LoopExited /\ StoppedByDecision) =>
        /\ execution_record.state = "completed"
        /\ returned.workflow_final_status = "completed"

(* C6: a run stopped by a decision step evaluating to false ends in state  *)
(* completed with detail completed_stopped_by_decision, except when that   *)
(* decision was the MAX_WORKFLOW_STEPS-th step executed and steps remain   *)
(* after it: the ceiling is classified first and the run ends failed with  *)
(* detail terminated_max_steps.                                            *)
C6_DecisionStopCompletesBelowCeiling ==
    (LoopExited /\ StoppedByDecision) =>
        IF AtCeilingWithStepsLeft
        THEN /\ execution_record.state = "failed"
             /\ returned.workflow_final_status = "failed"
             /\ StatusDetail = Str("terminated_max_steps")
        ELSE /\ execution_record.state = "completed"
             /\ returned.workflow_final_status = "completed"
             /\ StatusDetail = Str("completed_stopped_by_decision")

(* A decision at ordinal 0 of a longer workflow, below the ceiling,        *)
(* evaluated to false and the run ended completed after that one step.     *)
C6_Witness ==
    /\ pc = "done"
    /\ LoopExited
    /\ StoppedByDecision
    /\ step_index = 1
    /\ Len(workflow_steps) > 1
    /\ ~AtCeilingWithStepsLeft
    /\ execution_record.state = "completed"

(* The values the claim calls empty. *)
EmptyValues == {Str(""), Str(" "), List(<<>>), Dict(EmptyMap)}

(* The configuration's condition reads not_empty:<x>; ConditionVariable is *)
(* that x.                                                                 *)
IsNotEmptyCondition(config) ==
    /\ Join(config.type.v) = "decision"
    /\ "condition" \in DOMAIN config
    /\ Len(config.condition.v) = 3
    /\ config.condition.v[1] = "not_empty"
    /\ config.condition.v[2] = ":"

ConditionVariable(config) == config.condition.v[3]

C8_BasicQueryCompletes ==
    (/\ pc = "done"
     /\ LoopExited
     /\ workflow_steps = BasicQueryWorkflow
     /\ execution_record.initial_context = EmptyMap
     /\ \A n \in DOMAIN trace : trace[n].failure = "none") =>
        /\ execution_record.state = "completed"
        /\ "r" \in DOMAIN returned.final_outputs
        /\ CtxGet(variables, "q") = Str("hi")

(* The output mapping a tool step works with. *)
EffectiveOutputMapping(config) ==
    ConfigGet(config, "output_mapping",
              [t |-> "map", v |-> ("search_results" :> <<"$output">>)]).v

ToolCallSucceeded(step) ==
    /\ step.type = "tool"
    /\ step.call.ok
    /\ step.failure = "none"

HasField(value, field) == value.t = "dict" /\ field \in DOMAIN value.v

TargetVariable(n) ==
    Join(ConfigGet(get_step_config(workflow_steps, n), "variable_name",
                   [t |-> "str", v |-> <<StepKey(n, "_input")>>]).v)

(* C10: an input step entered with its target variable bound leaves the    *)
(* context holding the same value for it: when the step has returned, the  *)
(* variable's value is the one it had on entry.                            *)
C10_InputKeepsBoundVariable ==
    \A n \in DOMAIN trace :
        (/\ pc = "loop"
         /\ step_index = n + 1
         /\ trace[n].type = "input"
         /\ CtxGet(trace[n].entry, TargetVariable(n)) # None) =>
            CtxGet(variables, TargetVariable(n)) = CtxGet(trace[n].entry, TargetVariable(n))

(***************************************************************************)
(* C11: a run that ends failed (at the ceiling or in the except clause)    *)
(* returns every entry filed by an output step that completed before the   *)
(* failure: the key is in the returned final outputs, with the value of    *)
(* that step unless a later completed output step wrote the key again.     *)
(***************************************************************************)
CompletedOutputSteps ==
    {n \in DOMAIN step_outputs : n < Len(workflow_steps) /\ workflow_steps[n + 1] = "output"}

EngineStep ==
    \/ \E initial_context \in InitialContexts, insert_ok \in BOOLEAN :
           StartWorkflow(initial_context, insert_ok)
    \/ BeginStep
    \/ /\ pc = "in_step"
       /\ \E call \in (IF workflow_steps[step_index + 1] = "tool" THEN ToolCalls
                        ELSE {NoCall}),
             llm \in (IF workflow_steps[step_index + 1] = "tool" THEN {NoReply}
                      ELSE LLMReplies(workflow_steps[step_index + 1], step_index)) :
              FinishStep(call, llm)
    \/ ExitLoop
    \/ HandleException
    \/ Cancel
    \/ \E update_ok \in BOOLEAN : Finalize(update_ok)

C12_LogFailuresNeverAbort == [][EngineStep]_vars

(* A run in which log writes failed, every step ran and the record ended   *)
(* completed.                                                              *)
C12_Witness ==
    /\ pc = "done"
    /\ log_failures = MaxLogFailures
    /\ execution_record.state = "completed"
    /\ stored_state = "completed"
    /\ executed_steps = 0..(Len(workflow_steps) - 1)
    /\ returned.workflow_final_status = "completed"

(***************************************************************************)
(* C19: content whose estimated size is at most max_tokens comes back      *)
(* unchanged, and the summarizer is not called: a string is returned as    *)
(* it is, a dict or list as its JSON text, None as the empty text.         *)
(***************************************************************************)
CallSize == count_tokens(ContentText(overflow_call.content), overflow_call.tokenizer)

C19_WithinBudgetUnchanged ==
    (overflow_result # Unbound /\ CallSize <= overflow_call.max_tokens) =>
        /\ ~overflow_result.raised
        /\ overflow_result.text = ContentText(overflow_call.content)
        /\ overflow_call.content # None /\ overflow_call.content.t = "text"
               => overflow_result.text = overflow_call.content.v
        /\ overflow_result.summarizer_calls = 0
        /\ overflow_result.chunks = 0

(* A string filling the default budget exactly has come back as it was. *)
C19_Witness ==
    /\ overflow_result # Unbound
    /\ overflow_call.content = TextContent("result", 4 * MAX_TOOL_RESULT_TOKENS)
    /\ overflow_call.max_tokens = MAX_TOOL_RESULT_TOKENS
    /\ CallSize = MAX_TOOL_RESULT_TOKENS
    /\ overflow_result.text = Source("result", 4 * MAX_TOOL_RESULT_TOKENS)
    /\ ~overflow_result.raised

(***************************************************************************)
(* C20: content of more than 1,000,000 tokens is refused by an error,      *)
(* with no chunk cut and no summarizer call, whatever max_tokens is.       *)
(***************************************************************************)
Refused == overflow_result.raised /\ overflow_result.chunks = 0
           /\ overflow_result.summarizer_calls = 0

C20_OverLimitRefused ==
    (overflow_result # Unbound /\ CallSize > HardLimitTokens) => Refused

(* C20 as the code has it: the refusal comes after the test against        *)
(* max_tokens, so it holds for every max_tokens below the content's size.  *)
C20_OverLimitRefusedAboveBudget ==
    (overflow_result # Unbound /\ CallSize > HardLimitTokens
     /\ CallSize > overflow_call.max_tokens) => Refused

(* Content one token over the limit has been refused under the default     *)
(* budget.                                                                 *)
C20_Witness ==
    /\ overflow_result # Unbound
    /\ CallSize = HardLimitTokens + 1
    /\ overflow_call.max_tokens = MAX_TOOL_RESULT_TOKENS
    /\ Refused

(***************************************************************************)
(* C13: within one session the model is called at most                     *)
(* MAX_LLM_INTERACTION_TURNS times.                                        *)
(***************************************************************************)
C13_ModelCallsWithinTurns == model_calls <= MAX_LLM_INTERACTION_TURNS

(* A session has used all its turns: every turn asked for a tool. *)
C13_Witness ==
    /\ session_pc = "returned"
    /\ MAX_LLM_INTERACTION_TURNS = MaxTurns
    /\ model_calls = MaxTurns
    /\ Len(tool_calls) >= MaxTurns

(***************************************************************************)
(* C14: a reply with no request for a tool of the catalog ends the         *)
(* session after that round: it is the last message of the conversation    *)
(* and no further call of the model follows.  When the first reply has no  *)
(* tool-use block the model has been called exactly once and the text      *)
(* returned is the reply's text (its text blocks joined by newlines, white *)
(* space trimmed at both ends, a placeholder when nothing is left).        *)
(***************************************************************************)
AsksKnownTool(message) ==
    \E n \in 1..Len(message.content) :
        /\ message.content[n].type = "tool_use"
        /\ message.content[n].name \in available_mcp_tools_cache

AsksNoTool(message) ==
    \A n \in 1..Len(message.content) : message.content[n].type # "tool_use"

SessionOver == session_pc \in {"after_loop", "returned", "raised"}

C14_NoToolRequestEndsSession ==
    /\ \A i \in 1..Len(messages) :
           (messages[i].role = "assistant" /\ ~AsksKnownTool(messages[i])) =>
               /\ i = Len(messages)
               /\ SessionOver
               /\ model_calls = (i + 1) \div 2
    /\ (session_pc = "returned" /\ messages # <<>> /\ AsksNoTool(messages[1])) =>
           /\ model_calls = 1
           /\ Len(messages) = 1
           /\ tool_calls = <<>>
           /\ LET text == Join(Strip(JoinLines(TextsOf(messages[1].content))))
              IN session_returned.final_text =
                     IF TextsOf(messages[1].content) = <<>>
                     THEN "[LLM interaction ended without text output or MCP tool calls this turn.]"
                     ELSE IF text = ""
                     THEN "[LLM interaction produced no textual output and no tool outputs.]"
                     ELSE text

(* The first reply was a text padded with white space and nothing else:    *)
(* one call, the trimmed text returned.                                    *)
C14_Witness ==
    /\ session_pc = "returned"
    /\ model_calls = 1
    /\ messages = <<[role |-> "assistant",
                     content |-> <<TextBlock(<<" ", "answer", "\n">>)>>]>>
    /\ session_returned.final_text = "answer"
    /\ MAX_LLM_INTERACTION_TURNS > 1

(***************************************************************************)
(* C15: a request for a tool that is not in the catalog is never handed to *)
(* the tool channel and never answered by a tool-result entry; a reply     *)
(* whose only requests are of that kind ends the session like a reply with *)
(* no request.                                                             *)
(***************************************************************************)
ToolResultsSent ==
    {r \in UNION {{messages[i].content[n] : n \in 1..Len(messages[i].content)} :
                     i \in {j \in 1..Len(messages) : messages[j].role = "user"}} : TRUE}
    \cup {tool_results_for_llm_message[n] : n \in 1..Len(tool_results_for_llm_message)}

UnknownRequests ==
    UNION {{messages[i].content[n] : n \in {m \in 1..Len(messages[i].content) :
                /\ messages[i].content[m].type = "tool_use"
                /\ messages[i].content[m].name \notin available_mcp_tools_cache}} :
           i \in {j \in 1..Len(messages) : messages[j].role = "assistant"}}

C15_UnknownToolsIgnored ==
    /\ \A n \in 1..Len(tool_calls) : tool_calls[n].name \in available_mcp_tools_cache
    /\ \A u \in UnknownRequests :
           /\ \A n \in 1..Len(tool_calls) : tool_calls[n].id # u.id
           /\ \A r \in ToolResultsSent : r.tool_use_id # u.id
    /\ \A i \in 1..Len(messages) :
           (messages[i].role = "assistant" /\ ~AsksKnownTool(messages[i])) =>
               i = Len(messages) /\ SessionOver

(* A reply asked for a known and for an unknown tool: the known one alone  *)
(* was called and answered.                                                *)
C15_Witness ==
    /\ session_pc = "returned"
    /\ UnknownRequests # {}
    /\ Len(tool_calls) = 1
    /\ tool_calls[1].name = "exa_search"
    /\ Cardinality(ToolResultsSent) = 1

(***************************************************************************)
(* C16: for every call of a known tool that succeeds, the text of the      *)
(* tool-result entry is the overflow manager's text for the serialized     *)
(* result under the budget MAX_TOOL_RESULT_TOKENS, and its estimated size  *)
(* does not exceed that budget.                                            *)
(***************************************************************************)
Bounded(call) ==
    summarize_large_content(call.outcome.content, MAX_TOOL_RESULT_TOKENS, call.name,
                            call.outcome.tokenizer, call.outcome.summarizer)

Succeeded(call) == call.outcome.ok /\ ~Bounded(call).raised

C16_ToolResultWithinBudget ==
    \A n \in 1..Len(tool_calls) :
        Succeeded(tool_calls[n]) =>
            /\ \E r \in ToolResultsSent :
                   /\ r.tool_use_id = tool_calls[n].id
                   /\ ~r.is_error
                   /\ r.text = Bounded(tool_calls[n]).text
            /\ count_tokens(Bounded(tool_calls[n]).text, tool_calls[n].outcome.tokenizer)
                   <= MAX_TOOL_RESULT_TOKENS

(***************************************************************************)
(* C17: when the call of a known tool raises, the session goes on: an      *)
(* error-flagged tool-result entry with the request's id is added to the   *)
(* results of the round and the error is filed in the tool outputs under   *)
(* that id.                                                                *)
(***************************************************************************)
C17_ToolFailureBecomesErrorResult ==
    [][(Len(tool_calls') > Len(tool_calls) /\ ~tool_calls'[Len(tool_calls')].outcome.ok) =>
           LET call == tool_calls'[Len(tool_calls')]
               result == tool_results_for_llm_message'[Len(tool_results_for_llm_message')]
           IN /\ session_pc' \in {"tools", "model", "after_loop"}
              /\ session_returned' = Unbound
              /\ Len(tool_results_for_llm_message') = Len(tool_results_for_llm_message) + 1
              /\ result.tool_use_id = call.id
              /\ result.is_error
              /\ all_tool_outputs'[call.id].t = "error"
              /\ session_pc' # "tools" =>
                     messages'[Len(messages')] =
                         [role |-> "user", content |-> tool_results_for_llm_message']]_vars

(* A session has returned after a tool call that raised: the error is in   *)
(* the tool outputs and went to the model as an error-flagged result.      *)
C17_Witness ==
    /\ session_pc = "returned"
    /\ \E n \in 1..Len(tool_calls) :
           /\ ~tool_calls[n].outcome.ok
           /\ session_returned.all_tool_outputs[tool_calls[n].id].t = "error"
    /\ \E r \in ToolResultsSent : r.is_error /\ r.tool_use_id = "tu_1"
    /\ model_calls = 2

(***************************************************************************)
(* C18: when the overflow manager refuses a tool result, the error leaves  *)
(* the session: the session ends raised and no tool-result entry is made   *)
(* of it.                                                                  *)
(***************************************************************************)
C18_RefusalPropagates ==
    \A n \in 1..Len(tool_calls) :
        (tool_calls[n].outcome.ok /\ Bounded(tool_calls[n]).raised) =>
            /\ session_pc = "raised"
            /\ n = Len(tool_calls)
            /\ \A r \in ToolResultsSent : r.tool_use_id # tool_calls[n].id

(***************************************************************************)
(* Claims on the chunk summaries of _summarize_large_content.              *)
(***************************************************************************)
GatherReturned == gather_pc = "returned" /\ chunk_tasks # <<>>

(* The summary of the chunk of this index: the text the summarizer gave    *)
(* for it.                                                                 *)
SummaryOf(chunk_index) ==
    Source("summary of chunk " \o ToString(chunk_index + 1), overflow_call.summarizer.chars)

PlaceholderOf(chunk_index) ==
    Lit("[Chunk " \o ToString(chunk_index + 1) \o " summarization failed]")

(* The header, then the texts of the list with "\n\n" between them. *)
HeaderThen(texts) ==
    summary_header(CallSize, overflow_call.tool_name, Len(texts)) \o JoinTexts(texts)

FailedChunks == {i \in DOMAIN chunk_tasks : ChunkFails(overflow_call.summarizer, i - 1)}

(* The combined result as the claim describes it: a placeholder at the     *)
(* positions of the failed chunks, the summaries at the others.            *)
CombinedWithPlaceholders ==
    HeaderThen([i \in DOMAIN chunk_tasks |->
                   IF i \in FailedChunks THEN PlaceholderOf(i - 1) ELSE SummaryOf(i - 1)])

SiblingsNotAborted ==
    /\ \A i \in DOMAIN chunk_tasks : chunk_tasks[i].state = "done"
    /\ \A i \in DOMAIN chunk_tasks \ FailedChunks : chunk_summaries[i] = SummaryOf(i - 1)
    /\ \A i \in FailedChunks : chunk_summaries[i] = PlaceholderOf(i - 1)

(* C22 as stated: whatever chunk summarizations fail, bound() does not     *)
(* fail, no sibling is aborted and the text returned holds a placeholder   *)
(* at exactly the positions of the failed chunks and the summaries of all  *)
(* the other chunks.                                                       *)
C22_FailedChunksBecomePlaceholders ==
    GatherReturned =>
        /\ ~overflow_result.raised
        /\ SiblingsNotAborted
        /\ overflow_result.text = CombinedWithPlaceholders

(* C22, amended: bound() does not fail and no sibling is aborted; the      *)
(* combined summary is returned whole when, with its header, it is within  *)
(* the budget, and cut to a prefix followed by the truncation notice when  *)
(* it is over.                                                             *)
C22_FailedChunksBecomePlaceholdersWithinBudget ==
    GatherReturned =>
        /\ ~overflow_result.raised
        /\ SiblingsNotAborted
        /\ count_tokens(CombinedWithPlaceholders, overflow_call.tokenizer)
               <= overflow_call.max_tokens
           => overflow_result.text = CombinedWithPlaceholders
        /\ count_tokens(CombinedWithPlaceholders, overflow_call.tokenizer)
               > overflow_call.max_tokens
           => /\ overflow_result.path = "truncated_summary"
              /\ overflow_result.text # CombinedWithPlaceholders

C22_Witness ==
    /\ GatherReturned
    /\ Len(chunk_tasks) >= 3
    /\ FailedChunks # {}
    /\ FailedChunks # DOMAIN chunk_tasks
    /\ overflow_result.text = CombinedWithPlaceholders

(* C23: for content split into N >= 2 chunks, more than one chunk's        *)
(* summarization call is in flight at the same time at some point of the   *)
(* call.                                                                   *)
C23_ChunkCallsOverlap ==
    (GatherReturned /\ Len(chunk_tasks) >= 2) => in_flight_max >= 2

(***************************************************************************)
(* Claims on the size of what _summarize_large_content returns.            *)
(***************************************************************************)
BoundedTwice == overflow_previous # Unbound /\ overflow_result # Unbound

(* C24: bound() applied again, with the same maxTokens, to a text that     *)
(* bound() has returned gives back exactly that text.                      *)
C24_BoundIsIdempotent ==
    BoundedTwice =>
        /\ ~overflow_result.raised
        /\ overflow_result.text = overflow_previous.text

(* C25: whenever bound() returns a text, the text returned, header or      *)
(* truncation notice included, is estimated at no more than maxTokens.     *)
C25_ReturnedTextWithinBudget ==
    (overflow_result # Unbound /\ ~overflow_result.raised) =>
        count_tokens(overflow_result.text, overflow_call.tokenizer) <= overflow_call.max_tokens

(***************************************************************************)
(* Claims on the step handlers.                                            *)
(***************************************************************************)
HandledStep == trace[0]

StepFailed == pc = "handled" /\ HandledStep.failure # "none"

(* The variable a model-driven step files its text under. *)
ResultVariable ==
    Join(ConfigGet(agent_graph[1], "output_variable_name",
                   [t |-> "str", v |-> <<StepKey(0, "_result")>>]).v)

(* C26: whenever a step's execution fails, a failed model call inside the  *)
(* LLM session included, the context holds step_<ordinal>_error after the  *)
(* step and the failure text is not stored as the step's ordinary result   *)
(* variable.                                                               *)
C26_StepFailureSurfacesAsError ==
    StepFailed =>
        /\ StepKey(0, "_error") \in DOMAIN variables
        /\ HandledStep.failure = "model" =>
              CtxGet(variables, ResultVariable) # Str(ApiErrorReply.text)

(* The condition of the handled decision step, the default included. *)
HandledCondition ==
    Split(ConfigGet(agent_graph[1], "condition",
                    [t |-> "str", v |-> <<"not_empty", ":", "step_result">>]).v, ":")

(* The condition has one of the forms the engine is to evaluate itself:    *)
(* not_empty:<var> or contains:<literal>.                                  *)
RecognizedForm ==
    /\ Len(HandledCondition) = 2
    /\ HandledCondition[1] \in {"not_empty", "contains"}

(* C27: a decision step whose condition has a recognized form, whether or  *)
(* not its variable is bound in the context, is evaluated with no model    *)
(* call.                                                                   *)
C27_RecognizedConditionNeedsNoModel ==
    (pc = "handled" /\ HandledStep.type = "decision" /\ RecognizedForm) =>
        ~HandledStep.model_called

(***************************************************************************)
(* Claims on the step configuration.                                       *)
(***************************************************************************)
HasPlaceholder(pieces) == Contains(pieces, "{index}") \/ Contains(pieces, "{prev_index}")

ValueHasPlaceholder(value) ==
    CASE value.t = "str" -> HasPlaceholder(value.v)
      [] value.t = "list" -> \E n \in DOMAIN value.v : HasPlaceholder(value.v[n])
      [] value.t = "map" -> \E k \in DOMAIN value.v : HasPlaceholder(value.v[k])
      [] OTHER -> FALSE

(* The configuration execute_step got for the step at this ordinal. *)
ConfigAt(i) == get_step_config(workflow_steps, i)

(* C28: for every step kind and every ordinal i, the configuration built   *)
(* by get_step_config holds no unsubstituted placeholder, in its string,   *)
(* list and mapping values alike, and for i > 0 the tool kind's input      *)
(* mapping names step_<i-1>_result.                                        *)
C28_NoPlaceholderLeft ==
    \A i \in executed_steps :
        /\ \A k \in DOMAIN ConfigAt(i) : ~ValueHasPlaceholder(ConfigAt(i)[k])
        /\ (workflow_steps[i + 1] = "tool" /\ i > 0) =>
              Join(ConfigAt(i).input_mapping.v["query"]) = StepKey(i - 1, "_result")

(***************************************************************************)
(* Claims on the outputs of a run.                                         *)
(***************************************************************************)
(* One iteration of the main loop ends: execute_step has returned.         *)
StepEnds == pc = "in_step" /\ pc' = "loop"

(* execute_step returned from its try block: the step's outputs are filed  *)
(* under its ordinal.                                                      *)
StepSucceeds == StepEnds /\ step_index \in DOMAIN step_outputs'

ErrorKeys == {StepKey(step_index, "_error"), StepKey(step_index, "_exception_type")}

(* C29: finalOutputs is the merge, in step order with later keys           *)
(* overwriting earlier ones, of what the executed output steps produced    *)
(* (the error entries of an output step that raised included); a step of   *)
(* any other kind contributes no key; every key-value a successful step    *)
(* produced is merged into the context; and the run returns finalOutputs   *)
(* as it stands at the end.                                                *)
FinalOutputsAccumulate ==
    /\ StepEnds =>
          LET type == workflow_steps[step_index + 1]
          IN /\ type # "output" => final_outputs' = final_outputs
             /\ (type = "output" /\ StepSucceeds) =>
                   final_outputs' = step_outputs'[step_index] @@ final_outputs
             /\ (type = "output" /\ ~StepSucceeds) =>
                   /\ DOMAIN final_outputs' = DOMAIN final_outputs \cup ErrorKeys
                   /\ \A k \in DOMAIN final_outputs \ ErrorKeys :
                         final_outputs'[k] = final_outputs[k]
             /\ StepSucceeds =>
                   \A k \in DOMAIN step_outputs'[step_index] :
                       /\ k \in DOMAIN variables'
                       /\ variables'[k] = step_outputs'[step_index][k]
    /\ (~StepEnds /\ pc # "idle") => final_outputs' = final_outputs
    /\ (pc \in {"loop", "except"} /\ pc' = "finally") =>
          returned'.final_outputs = final_outputs

C30_FinalizerReachesStore ==
    (pc = "done" /\ db_client) =>
        /\ execution_record.finalized
        /\ execution_record.state \in Terminal
        /\ stored_state \in {execution_record.state, "running"}

(***************************************************************************)
(* Properties of the session rounds.                                       *)
(***************************************************************************)
(* The identifiers of a sequence of requests, and of a sequence of         *)
(* tool-result entries.                                                    *)
RequestIds(requests) == [k \in 1..Len(requests) |-> requests[k].id]

ResultIds(results) == [k \in 1..Len(results) |-> results[k].tool_use_id]

(* C31: within one round every recognized tool request yields exactly one  *)
(* tool-result entry carrying its identifier, and the entries go to the    *)
(* model in the order of the requests: every user message of the           *)
(* conversation follows an assistant message and carries, entry by entry,  *)
(* the identifiers of that message's recognized requests; while the round  *)
(* is under way the entries made so far are those of the first requests.   *)
C31_ResultsInRequestOrder ==
    /\ \A n \in 1..Len(messages) :
           messages[n].role = "user" =>
               /\ n > 1
               /\ messages[n - 1].role = "assistant"
               /\ \A k \in 1..Len(messages[n].content) :
                      messages[n].content[k].type = "tool_result"
               /\ ResultIds(messages[n].content) =
                      RequestIds(Recognized(messages[n - 1].content,
                                            available_mcp_tools_cache))
    /\ session_pc = "tools" =>
           /\ Len(tool_results_for_llm_message) < Len(requested_mcp_tool_calls.calls)
           /\ ResultIds(tool_results_for_llm_message) =
                  SubSeq(RequestIds(requested_mcp_tool_calls.calls), 1,
                         Len(tool_results_for_llm_message))

(* A round of two requests, the first of which failed and the second of    *)
(* which succeeded, has gone to the model.                                 *)
C31_Witness ==
    \E n \in 1..Len(messages) :
        /\ messages[n].role = "user"
        /\ Len(messages[n].content) = 2
        /\ messages[n].content[1].tool_use_id # messages[n].content[2].tool_use_id
        /\ messages[n].content[1].is_error
        /\ ~messages[n].content[2].is_error

(* The call made by the step, when the step is a call of a tool.           *)
CallMade == tool_calls'[Len(tool_calls')]

(* C32: for every recognized tool invocation that itself succeeds, the     *)
(* tool outputs hold, under the request's identifier, the un-shrunk        *)
(* normalized result, whatever the overflow manager does with the copy     *)
(* sent to the model: unchanged, summarized, truncated or refused.         *)
C32_OutputsKeepUnshrunkResult ==
    [][(Len(tool_calls') > Len(tool_calls) /\ CallMade.outcome.ok) =>
           /\ CallMade.id \in DOMAIN all_tool_outputs'
           /\ all_tool_outputs'[CallMade.id] = CallMade.outcome.content]_vars

(* The same for the calls the overflow manager does not refuse.            *)
OutputsKeepUnshrunkResultUnlessRefused ==
    [][(Len(tool_calls') > Len(tool_calls) /\ Succeeded(CallMade)) =>
           /\ CallMade.id \in DOMAIN all_tool_outputs'
           /\ all_tool_outputs'[CallMade.id] = CallMade.outcome.content]_vars

(* The replies of the model that are in the conversation, and the notice   *)
(* of the last turn.                                                       *)
AssistantMessages ==
    LET FromModel(message) == message.role = "assistant"
    IN SelectSeq(messages, FromModel)

TruncationNotice == <<"[LLM interaction reached max turns with pending tool calls.]">>

NoticeAppended ==
    \E n \in 1..Len(aggregated_text_responses) :
        aggregated_text_responses[n] = TruncationNotice

(* The model answered on every permitted turn and its reply on the last    *)
(* one asks for a tool of the catalog.                                     *)
LastTurnAsksTool ==
    /\ model_calls = MAX_LLM_INTERACTION_TURNS
    /\ Len(AssistantMessages) = MAX_LLM_INTERACTION_TURNS
    /\ AsksKnownTool(AssistantMessages[Len(AssistantMessages)])

(* C33: when the reply of the model on the last permitted turn still asks  *)
(* for recognized tools, the session returns with the truncation notice    *)
(* at the end of the aggregated text; a session that ended before the      *)
(* last turn returns without the notice.                                   *)
C33_NoticeOnLastTurnOnly ==
    /\ (LastTurnAsksTool /\ SessionOver /\ session_pc # "after_loop") =>
           /\ session_pc = "returned"
           /\ aggregated_text_responses # <<>>
           /\ aggregated_text_responses[Len(aggregated_text_responses)] = TruncationNotice
    /\ (SessionOver /\ turn < MAX_LLM_INTERACTION_TURNS - 1) => ~NoticeAppended
    /\ ~SessionOver => ~NoticeAppended

(* A session of two turns has returned with the notice, and its last       *)
(* round called a tool.                                                    *)
C33_Witness ==
    /\ session_pc = "returned"
    /\ MAX_LLM_INTERACTION_TURNS = 2
    /\ LastTurnAsksTool
    /\ NoticeAppended
    /\ Len(tool_calls) >= 2

(* The text filed when the call of the model raises. *)
ModelCallError == <<"Error calling Anthropic API">>

ModelCallFailed ==
    \E n \in 1..Len(aggregated_text_responses) :
        aggregated_text_responses[n] = ModelCallError

(* C39: for every MAX_LLM_INTERACTION_TURNS >= 1 and every turn on which   *)
(* the call of the model fails, the session does not raise: it calls the   *)
(* model no more and returns with the error text in the aggregated text    *)
(* and the tool outputs gathered so far.                                   *)
C39_ModelFailureReturnsNormally ==
    ModelCallFailed =>
        /\ session_pc \in {"after_loop", "returned"}
        /\ session_pc = "returned" =>
               /\ session_returned.final_text = final_text_of(aggregated_text_responses)
               /\ session_returned.all_tool_outputs = all_tool_outputs

(* The same for the failures that come after a turn that called tools, or  *)
(* before the last permitted turn.                                         *)
ModelFailureReturnsNormallyOnceBound ==
    (ModelCallFailed /\ (requested_mcp_tool_calls.bound \/ MAX_LLM_INTERACTION_TURNS > 1)) =>
        /\ session_pc \in {"after_loop", "returned"}
        /\ session_pc = "returned" =>
               /\ session_returned.final_text = final_text_of(aggregated_text_responses)
               /\ session_returned.all_tool_outputs = all_tool_outputs

(* The summarization pipeline of the call threw outside the chunks' own    *)
(* calls: the content is over the budget, within the hard limit, and the   *)
(* pipeline raises.                                                        *)
PipelineThrew ==
    /\ overflow_result # Unbound
    /\ overflow_call.summarizer.pipeline_error
    /\ CallSize > overflow_call.max_tokens
    /\ CallSize <= HardLimitTokens

(* The truncation notice that states this original size. *)
TruncationNoticeOf(original_tokens, call) ==
    Lit("\n\n[CONTENT TRUNCATED - Original: " \o ToString(original_tokens)
        \o " tokens from " \o call.tool_name \o ", showing first "
        \o ToString(call.max_tokens) \o " tokens]")

(* C34: when the summarization pipeline throws for a reason other than a   *)
(* chunk's own failure, bound() does not fail: it returns a prefix of the  *)
(* original canonical text followed by the truncation notice that states   *)
(* the original size.                                                      *)
C34_PipelineErrorFallsBackToTruncation ==
    PipelineThrew =>
        LET text == ContentText(overflow_call.content)
            notice == TruncationNoticeOf(CallSize, overflow_call)
            kept == Chars(overflow_result.text) - Chars(notice)
        IN /\ ~overflow_result.raised
           /\ kept >= 0
           /\ kept < Chars(text)
           /\ overflow_result.text = Prefix(text, kept) \o notice

(* A result one token over the default budget, whose pipeline threw, has   *)
(* come back cut to a prefix of more than 100 characters.                  *)
C34_Witness ==
    /\ PipelineThrew
    /\ overflow_previous = Unbound
    /\ overflow_call.max_tokens = MAX_TOOL_RESULT_TOKENS
    /\ overflow_call.content = DataContent("result", 4 * MAX_TOOL_RESULT_TOKENS + 4)
    /\ overflow_result.path = "truncated_text"
    /\ Chars(overflow_result.text) > 100
    /\ Chars(overflow_result.text) < 4 * MAX_TOOL_RESULT_TOKENS + 4

(***************************************************************************)
(* Properties of the shrink loop of the fallback truncation.               *)
(***************************************************************************)
Estimate(text) == count_tokens(text, shrink_call.tokenizer)

(* An iteration of the loop is taken from a text that is over the target   *)
(* and longer than 100 characters, and leaves the first nine tenths of     *)
(* it, rounded down: a strictly shorter text.                              *)
IterationShortens ==
    (shrink_pc = "loop" /\ shrink_pc' = "loop") =>
        /\ Estimate(shrink_truncated) > shrink_target
        /\ Chars(shrink_truncated) > 100
        /\ Chars(shrink_truncated') = (Chars(shrink_truncated) * 9) \div 10
        /\ Chars(shrink_truncated') < Chars(shrink_truncated)
        /\ shrink_truncated' = Prefix(shrink_truncated, Chars(shrink_truncated'))

(* The loop is left once the estimate is within the target or the text is  *)
(* at most 100 characters long, and what it stops at is what the function  *)
(* computes.                                                               *)
LoopLeftWhenDue ==
    (shrink_pc = "loop" /\ shrink_pc' = "returned") =>
        /\ \/ Estimate(shrink_truncated) <= shrink_target
           \/ Chars(shrink_truncated) <= 100
        /\ shrink_result'.text = truncate_content_fallback(shrink_call.text,
                                                           shrink_call.max_tokens,
                                                           shrink_call.tool_name,
                                                           shrink_call.original_tokens,
                                                           shrink_call.tokenizer)

(* C40: the shrink loop of the fallback truncation terminates for every    *)
(* text, maxTokens and token estimator: each iteration strictly shortens   *)
(* the text, to 90% of its length rounded down, the loop stops once the    *)
(* estimate is within the target or the text is at most 100 characters     *)
(* long, and every loop that is entered is left.                           *)
C40_ShrinkLoopTerminates ==
    /\ [][IterationShortens /\ LoopLeftWhenDue]_vars
    /\ (shrink_pc = "loop") ~> (shrink_pc = "returned")

(* A call whose budget is below the size of the notice has returned: the   *)
(* target was negative and the loop ran down to a text of 100 characters   *)
(* or less that is still over the target.                                  *)
C40_Witness ==
    /\ shrink_pc = "returned"
    /\ shrink_target < 0
    /\ Chars(shrink_call.text) = 4 * HardLimitTokens
    /\ Chars(shrink_truncated) <= 100
    /\ Chars(shrink_truncated) > 0
    /\ Estimate(shrink_truncated) > shrink_target

(***************************************************************************)
(* Further properties of the workflow step engine.                         *)
(***************************************************************************)
(* C35: a workflow of exactly MAX_WORKFLOW_STEPS steps, all of which let   *)
(* the run continue, executes all of them and ends completed with detail   *)
(* completed_successfully; a run is failed by the iteration ceiling only   *)
(* when steps remain unexecuted.                                           *)
C35_ExactCeilingCompletes ==
    /\ (LoopExited /\ Len(workflow_steps) = MAX_WORKFLOW_STEPS /\ should_continue) =>
           /\ executed_steps = 0..(MAX_WORKFLOW_STEPS - 1)
           /\ DOMAIN trace = 0..(MAX_WORKFLOW_STEPS - 1)
           /\ current_step = MAX_WORKFLOW_STEPS
           /\ execution_record.state = "completed"
           /\ returned.workflow_final_status = "completed"
           /\ StatusDetail = Str("completed_successfully")
    /\ (LoopExited /\ StatusDetail = Str("terminated_max_steps")) =>
           /\ execution_record.state = "failed"
           /\ step_index < Len(workflow_steps)
           /\ Len(workflow_steps) - 1 \notin executed_steps

(* A workflow of two steps under a ceiling of two has run both steps and   *)
(* ended completed.                                                        *)
C35_Witness ==
    /\ pc = "done"
    /\ LoopExited
    /\ MAX_WORKFLOW_STEPS = 2
    /\ Len(workflow_steps) = 2
    /\ should_continue
    /\ executed_steps = {0, 1}
    /\ execution_record.state = "completed"
    /\ StatusDetail = Str("completed_successfully")

(* The handled step is a decision step that the model resolved: the model  *)
(* was called and the step's outputs were filed.                           *)
DecisionResolvedByModel ==
    /\ pc = "handled"
    /\ HandledStep.type = "decision"
    /\ HandledStep.model_called
    /\ 0 \in DOMAIN step_outputs

ConditionResultKey == StepKey(0, "_condition_result")

(* C36: a decision step resolved by the model stops the workflow only if   *)
(* its outputs hold step_<ordinal>_condition_result with a falsy value;    *)
(* when the outputs lack the key the decision counts as true and the       *)
(* workflow is to continue.                                                *)
C36_DecisionDefaultsToContinue ==
    DecisionResolvedByModel =>
        /\ ~should_continue =>
               /\ ConditionResultKey \in DOMAIN step_outputs[0]
               /\ ~Truthy(step_outputs[0][ConditionResultKey])
        /\ ConditionResultKey \notin DOMAIN step_outputs[0] =>
               /\ should_continue
               /\ HandledStep.should_continue

(* The model answered a decision step with plain text, no JSON object: the *)
(* text is the step's only output and the workflow is to continue.         *)
C36_Witness ==
    /\ DecisionResolvedByModel
    /\ HandledStep.failure = "none"
    /\ DOMAIN step_outputs[0] = {StepKey(0, "_result")}
    /\ should_continue

(* The run has started with a record store whose insert raised. *)
InsertRaised == db_client /\ ~db_record_inserted /\ pc \notin {"idle", "unused", "handler", "handled"}

(* C37: when a record store is configured and its insert of the execution  *)
(* record raises, the run executes no workflow step, ends failed with the  *)
(* error returned to the caller, and the finalizer issues no update to the *)
(* store; without any store the run executes its steps as usual.           *)
C37_InsertFailureEndsRun ==
    /\ InsertRaised =>
           /\ pc \in {"except", "finally", "done"}
           /\ executed_steps = {}
           /\ current_step = 0
           /\ DOMAIN trace = {}
           /\ stored_state = "absent"
           /\ pc \in {"finally", "done"} =>
                  /\ execution_record.state = "failed"
                  /\ returned.workflow_final_status = "failed"
                  /\ returned.error # ""
    /\ (~db_client /\ LoopExited) =>
           /\ step_index >= 1
           /\ executed_steps = 0..(step_index - 1)
           /\ DOMAIN trace = executed_steps
           /\ should_continue =>
                  step_index = IF Len(workflow_steps) < MAX_WORKFLOW_STEPS
                               THEN Len(workflow_steps) ELSE MAX_WORKFLOW_STEPS
           /\ stored_state = "absent"

(* A run of two steps or more has ended after the insert raised: failed,   *)
(* the error returned, no step executed and nothing in the store.          *)
C37_Witness ==
    /\ pc = "done"
    /\ InsertRaised
    /\ Len(workflow_steps) >= 2
    /\ returned.workflow_final_status = "failed"
    /\ returned.error = "insert failed"
    /\ executed_steps = {}
    /\ stored_state = "absent"

(* The first step of a second call is about to execute. *)
SecondRunStarts == run_number = 2 /\ pc = "in_step" /\ step_index = 0

(* C38: the state of a run is scoped to the run.  When execute_workflow is *)
(* called a second time on the same runner, the step counter and the set   *)
(* of executed steps restart from zero, and no context variable written by *)
(* a step of the first run is visible to a step of the second run.         *)
C38_RunStateScopedToRun ==
    /\ (run_number = 2 /\ pc = "in_step") =>
           /\ current_step = step_index + 1
           /\ executed_steps = 0..step_index
    /\ SecondRunStarts => earlier_written \cap DOMAIN variables = {}

(* The counters of the second run do restart.                              *)
CountersRestart ==
    (run_number = 2 /\ pc = "in_step") =>
        /\ current_step = step_index + 1
        /\ executed_steps = 0..step_index

====
